---- MODULE Spec2Model ----
(***************************************************************************)
(* The node coordinator (Lavalink), the guild player registry              *)
(* (PlayerManager, Player) and the node connection they drive.             *)
(*                                                                         *)
(* client.rs and player.rs are modelled from their code.  The node         *)
(* connection itself (Node::connect, Node::send, Node::penalty and the     *)
(* two duties of a connection) lives in node.rs, which is not among the    *)
(* source files; those definitions follow the design document.            *)
(*                                                                         *)
(* An Option<T> is a sequence of length at most one: << >> is None and     *)
(* <<x>> is Some(x).  A Node handle is the identity of the connection it   *)
(* refers to.                                                              *)
(***************************************************************************)
EXTENDS Integers, Sequences, FiniteSets, TLC

\* ------------------------------------------------------------- bounds ----
MaxConns == 2       \* connections ever opened by add
MaxPlayers == 2     \* Players ever constructed by Player::new
MaxCmds == 2        \* commands ever handed to send
MaxFrames == 2      \* frames ever received from the nodes
MaxRetries == 2     \* failed retries of one reconnection

\* The inputs of the operations: two socket addresses, two guilds, and
\* two tasks that call the coordinator concurrently.
Addrs == {1, 2}

Guilds == {1, 2}

Callers == {1, 2}

\* The guild the concurrent callers of player() and get_or_insert ask for
Contended == {1}

\* The task that binds Players where the connection is what is looked at
Binder == {1}

Conns == 1..MaxConns

\* lowest starts at i32::MAX in best(); also the worst score an i32 holds
I32Max == 2147483647

VARIABLES
    nodes,      \* LavalinkRef.nodes: address -> Option<Node>
    players,    \* PlayerManager.players: guild -> Option<Player>
    state,      \* connection -> state of its protocol state machine
    addr,       \* connection -> NodeConfig.address
    stats,      \* connection -> Option<Stats>, the cached snapshot
    queue,      \* connection -> outbound queue of commands
    wire,       \* connection -> commands written to the transport
    accepted,   \* connection -> commands for which send returned Ok
    held,       \* connection -> a caller keeps a Node handle returned to it
    removed,    \* connection -> Lavalink::remove has taken it from the node map
    callers,    \* caller -> the call it is in and the locals of that call
    nextConn,   \* identity of the next connection
    nextPlayer, \* identity of the next Player
    nextCmd,    \* identity of the next command
    lastSend,   \* caller-visible result of the latest send through a Player
    dropped,    \* connection -> commands that left the queue unwritten
    inbox,      \* connection -> frames received and not yet handled
    pending,    \* connection -> the event handled and not yet republished
    published,  \* connection -> events republished on the subscriber stream
    lastApplied,\* guild -> the latest player-update applied to its Player
    handled,    \* connection -> arrival number of the latest frame handled
    nextFrame,  \* arrival number of the next frame
    codec,      \* an OutgoingEvent, its JSON text and what parses back
    resume,     \* connection -> NodeConfig.resume, the Option of a token
    request,    \* connection -> its latest handshake and the resume it asked for
    retries,    \* connection -> failed retries of the reconnection under way
    replaced,   \* connection -> an add for its address has taken its entry
    hasher,     \* the shard each key of the player map and of the node map hashes to
    tasks,      \* task -> the map operation it is in, down to the guards it waits for
    guards      \* the Ref, RefMut and iterator guards of the two maps in existence

vars == << nodes, players, state, addr, stats, queue, wire, accepted, held,
           removed, callers, nextConn, nextPlayer, nextCmd, lastSend, dropped,
           inbox, pending, published, lastApplied, handled, nextFrame, codec,
           resume, request, retries, replaced, hasher, tasks, guards >>

\* ------------------------------------------------------ option helpers ----
Some(x) == << x >>

IsSome(o) == Len(o) = 1

Unwrap(o) == o[1]

\* ---------------------------------------------------- health statistics ----
\* Stats as far as scoring reads it: playing_players, cpu.system_load (in
\* percent) and the optional frameStats (deficit, nulled).
StatsIdle == [playing |-> 0, cpu |-> 10, frames |-> << >>]

StatsBusy == [playing |-> 5, cpu |-> 10, frames |-> << >>]

StatsLossy == [playing |-> 0, cpu |-> 0, frames |-> << [deficit |-> 6, nulled |-> 0] >>]

StatsSamples == {StatsIdle, StatsBusy, StatsLossy}


\* floor(10 * 1.05^(100*systemCpuLoad) - 10), tabulated over the loads of
\* the samples (load in percent).
CpuPenalty(load) ==
    CASE load = 0 -> 0
      [] load = 10 -> 6
      [] load = 50 -> 104
      [] load = 100 -> 1305

\* floor(300 * 1.03^(500*frames/3000) - 300), tabulated over the frame
\* counts of the samples.
FramePenalty(frames) ==
    CASE frames = 0 -> 0
      [] frames = 6 -> 9
      [] frames = 60 -> 103
      [] frames = 300 -> 1015
      [] frames = 600 -> 5465

\* floor(2 * (300 * 1.03^(500*frames/3000) - 300)), tabulated likewise.
NulledPenalty(frames) ==
    CASE frames = 0 -> 0
      [] frames = 6 -> 18
      [] frames = 60 -> 206
      [] frames = 300 -> 2030
      [] frames = 600 -> 10931

\* The penalty as it would be if the playing players lowered it.
PenaltyLessPlaying(snapshot) ==
    IF ~IsSome(snapshot) THEN I32Max
    ELSE LET s == Unwrap(snapshot) IN
         CpuPenalty(s.cpu) - s.playing
           + (IF IsSome(s.frames) THEN FramePenalty(Unwrap(s.frames).deficit) ELSE 0)
           + (IF IsSome(s.frames) THEN NulledPenalty(Unwrap(s.frames).nulled) ELSE 0)

\* Node::penalty over the cached snapshot; a connection that has received
\* no statistics yet scores the worst possible value.
Penalty(snapshot) ==
    IF ~IsSome(snapshot) THEN I32Max
    ELSE LET s == Unwrap(snapshot) IN
         s.playing + CpuPenalty(s.cpu)
           + (IF IsSome(s.frames) THEN FramePenalty(Unwrap(s.frames).deficit) ELSE 0)
           + (IF IsSome(s.frames) THEN NulledPenalty(Unwrap(s.frames).nulled) ELSE 0)

\* ---------------------------------------------------------- the player ----
\* FiltersState::new() is "off"; a player-update carries a filter set.
UpdateA == [time |-> 1, position |-> 1, paused |-> FALSE, volume |-> 100, filters |-> "off"]

UpdateB == [time |-> 2, position |-> 2, paused |-> TRUE, volume |-> 50, filters |-> "karaoke"]

UpdateSamples == {UpdateA, UpdateB}

\* Player::new(guild_id, node)
NewPlayer(id, g, c) ==
    [id |-> id, guild |-> g, node |-> c, time |-> 0, position |-> << >>,
     paused |-> FALSE, volume |-> 0, filters |-> "off"]

\* PlayerManager::get
PlayerGet(g) == players[g]

\* Lavalink::get
NodeGet(a) == nodes[a]

\* ---------------------------------------------------------- callers ----
\* A caller is idle, inside best() (on its own or as a step of player()),
\* between best() and get_or_insert inside player(), or done with a
\* result it still holds.  Beside the locals of the call the record keeps
\* what the properties ask about it: stable tells that neither the node
\* map nor a cached snapshot changed since the caller entered best(); via
\* tells whether a Player came from get or from get_or_insert, made
\* whether this call constructed it, and passed which node the call gave
\* to get_or_insert; live tells that the guild of a returned Player has
\* had no removal since the return.
NoRet == [tag |-> "none", val |-> 0]

IdleCall ==
    [pc |-> "idle", op |-> "none", guild |-> 0, cursor |-> 0,
     lowest |-> I32Max, best |-> << >>, ret |-> NoRet,
     stable |-> TRUE, via |-> "none", made |-> FALSE, passed |-> << >>,
     live |-> TRUE]

\* Node handles that callers hold in the locals and the result of a call
CallerHolds(c) ==
    \E k \in Callers :
        \/ callers[k].best = Some(c)
        \/ callers[k].ret.tag = "node" /\ callers[k].ret.val = c

\* Node handles in existence for connection c: the node map's, the bound
\* Players' and the callers'
HasHandle(c) ==
    \/ \E a \in Addrs : nodes[a] = Some(c)
    \/ \E g \in Guilds : IsSome(players[g]) /\ Unwrap(players[g]).node = c
    \/ held[c]
    \/ CallerHolds(c)

\* A change of the node map or of a cached snapshot ends the stability of
\* every best() in progress and of every result of best() still held
Unsettle(cs) ==
    [k \in Callers |->
        IF cs[k].pc = "best" \/ cs[k].ret.tag \in {"node", "NodesUnconfigured"}
        THEN [cs[k] EXCEPT !.stable = FALSE] ELSE cs[k]]

\* The removal of the Player of guild g ends the life of the results
\* callers hold for g
Expire(cs, g) ==
    [k \in Callers |->
        IF cs[k].ret.tag = "player" /\ cs[k].guild = g
        THEN [cs[k] EXCEPT !.live = FALSE] ELSE cs[k]]

chanVars == << queue, wire, accepted, nextCmd, lastSend, dropped >>

inVars == << inbox, pending, published, lastApplied, handled, nextFrame >>

hsVars == << resume, request, retries >>

guardVars == << hasher, tasks, guards >>

\* The inbound duty, as a task beside the callers
Duty == 0

\* The tasks that take guards of the maps
Tasks == Callers \cup {Duty}

\* The shards of a DashMap in the model
Shards == {1, 2}

\* The caller that adds and removes nodes where the guards are what is
\* looked at; the other caller calls best()
Registrar == {1}

\* The connection whose inbound duty takes events there
Fed == {1}

\* The address nodes are removed from there
Rebuilt == {1}

\* A task outside every map operation
IdleTask ==
    [pc |-> "idle", op |-> "none", guild |-> 0, address |-> 0, cursor |-> 0,
     lowest |-> I32Max, best |-> << >>, update |-> << >>, field |-> 0]

\* No handshake yet
NoRequest == [kind |-> "none", resume |-> << >>]

\* What a handshake of connection c asks for: the resume of its
\* configuration, with the token when there is one
Handshake(kind, c) == [kind |-> kind, resume |-> resume[c]]

Init ==
    /\ nodes = [a \in Addrs |-> << >>]
    /\ players = [g \in Guilds |-> << >>]
    /\ state = [c \in Conns |-> "Unused"]
    /\ addr = [c \in Conns |-> 0]
    /\ stats = [c \in Conns |-> << >>]
    /\ queue = [c \in Conns |-> << >>]
    /\ wire = [c \in Conns |-> << >>]
    /\ accepted = [c \in Conns |-> << >>]
    /\ held = [c \in Conns |-> FALSE]
    /\ removed = [c \in Conns |-> FALSE]
    /\ callers = [k \in Callers |-> IdleCall]
    /\ nextConn = 1
    /\ nextPlayer = 1
    /\ nextCmd = 1
    /\ lastSend = [tag |-> "none", conn |-> 0, cmd |-> 0, at |-> "none", removed |-> FALSE]
    /\ dropped = [c \in Conns |-> {}]
    /\ inbox = [c \in Conns |-> << >>]
    /\ pending = [c \in Conns |-> << >>]
    /\ published = [c \in Conns |-> << >>]
    /\ lastApplied = [g \in Guilds |-> << >>]
    /\ handled = [c \in Conns |-> 0]
    /\ nextFrame = 1
    /\ codec = [event |-> << >>, json |-> << >>, parsed |-> << >>]
    /\ resume = [c \in Conns |-> << >>]
    /\ request = [c \in Conns |-> NoRequest]
    /\ retries = [c \in Conns |-> 0]
    /\ replaced = [c \in Conns |-> FALSE]
    /\ hasher = << >>
    /\ tasks = [t \in Tasks |-> IdleTask]
    /\ guards = {}

\* ------------------------------------------------ the node coordinator ----
\* The insert as it would be with entry().or_insert(): an entry that is
\* there stays.
NodesInsertIfAbsent(ns, a, c) == IF IsSome(ns[a]) THEN ns ELSE [ns EXCEPT ![a] = Some(c)]

\* DashMap::insert of the node map: the entry of the address becomes the
\* given handle; a handle that was there is dropped.
NodesInsert(ns, a, c) == [ns EXCEPT ![a] = Some(c)]

\* Lavalink::add_with_resume when Node::connect returns Ok: a new
\* connection for the address is Connected, it is inserted at the address
\* and it is returned to the caller.  Until the insert the connection is
\* known to this call alone, so the call is one step.
AddWithResume(a, r) ==
    /\ nextConn <= MaxConns
    /\ state' = [state EXCEPT ![nextConn] = "Connected"]
    /\ addr' = [addr EXCEPT ![nextConn] = a]
    /\ resume' = [resume EXCEPT ![nextConn] = r]
    /\ request' = [request EXCEPT ![nextConn] = [kind |-> "connect", resume |-> r]]
    /\ nextConn' = nextConn + 1
    /\ nodes' = NodesInsert(nodes, a, nextConn)
    /\ held' = [held EXCEPT ![nextConn] = TRUE]
    /\ callers' = Unsettle(callers)
    /\ replaced' = IF IsSome(nodes[a])
                   THEN [replaced EXCEPT ![Unwrap(nodes[a])] = TRUE] ELSE replaced
    /\ UNCHANGED << guardVars, retries, inVars, codec, players, stats, removed, nextPlayer, chanVars >>

\* Lavalink::add: add_with_resume without a resume.
Add(a) == AddWithResume(a, << >>)

\* The failed add as it would be if the entry of the address were taken
\* out of the node map before the connection is tried.
AddFailEvicts(a) ==
    /\ nextConn <= MaxConns
    /\ state' = [state EXCEPT ![nextConn] = "Closed"]
    /\ addr' = [addr EXCEPT ![nextConn] = a]
    /\ nextConn' = nextConn + 1
    /\ nodes' = [nodes EXCEPT ![a] = << >>]
    /\ UNCHANGED << guardVars, hsVars, replaced, inVars, codec, players, stats, held, removed,
                    callers, nextPlayer, chanVars >>

\* Lavalink::add_with_resume when Node::connect returns an error: the `?`
\* returns it before the insert, and the connection that was tried is
\* gone.
AddFail(a) ==
    /\ nextConn <= MaxConns
    /\ state' = [state EXCEPT ![nextConn] = "Closed"]
    /\ addr' = [addr EXCEPT ![nextConn] = a]
    /\ nextConn' = nextConn + 1
    /\ UNCHANGED << guardVars, hsVars, replaced, inVars, codec, nodes, players, stats, held, removed, callers, nextPlayer, chanVars >>

\* DashMap::remove of the node map
NodesRemove(ns, a) == [ns EXCEPT ![a] = << >>]

\* remove as it would be if it also took the Players bound to the node out
\* of the player registry.
NodeRemoveCascade(a) ==
    /\ IsSome(nodes[a])
    /\ nodes' = [nodes EXCEPT ![a] = << >>]
    /\ players' = [g \in Guilds |->
          IF IsSome(players[g]) /\ Unwrap(players[g]).node = Unwrap(nodes[a])
          THEN << >> ELSE players[g]]
    /\ held' = [held EXCEPT ![Unwrap(nodes[a])] = TRUE]
    /\ removed' = [removed EXCEPT ![Unwrap(nodes[a])] = TRUE]
    /\ callers' = Unsettle(callers)
    /\ UNCHANGED << guardVars, hsVars, replaced, inVars, codec, state, addr, stats, nextConn, nextPlayer, chanVars >>

\* Lavalink::remove: the entry leaves the node map and its handle is
\* returned to the caller.  Nothing else is touched.
NodeRemove(a) ==
    /\ IsSome(nodes[a])
    /\ nodes' = NodesRemove(nodes, a)
    /\ held' = [held EXCEPT ![Unwrap(nodes[a])] = TRUE]
    /\ removed' = [removed EXCEPT ![Unwrap(nodes[a])] = TRUE]
    /\ callers' = Unsettle(callers)
    /\ UNCHANGED << guardVars, hsVars, replaced, inVars, codec, players, state, addr, stats, nextConn, nextPlayer, chanVars >>

\* A caller drops the Node handles it was given for connection c.
DropHandle(c) ==
    /\ held[c]
    /\ held' = [held EXCEPT ![c] = FALSE]
    /\ UNCHANGED << guardVars, hsVars, replaced, inVars, codec, nodes, players, state, addr, stats, removed, callers,
                    nextConn, nextPlayer, chanVars >>

\* The identities of the commands in a queue
Unsent(q) == {q[i].id : i \in 1..Len(q)}

\* The duties of a connection end once no Node handle to it is left: the
\* connection is Closed and what is still queued is dropped.
ConnClose(c) ==
    /\ state[c] \in {"Connected", "Disconnected", "Reconnecting"}
    /\ ~HasHandle(c)
    /\ state' = [state EXCEPT ![c] = "Closed"]
    /\ queue' = [queue EXCEPT ![c] = << >>]
    /\ dropped' = [dropped EXCEPT ![c] = @ \cup Unsent(queue[c])]
    /\ UNCHANGED << guardVars, hsVars, replaced, inVars, codec, nodes, players, addr, stats, held, removed, callers,
                    nextConn, nextPlayer, wire, accepted, nextCmd, lastSend >>

\* ------------------------------------------------------ inbound events ----
\* The inbound duty on a node-statistics event: the snapshot is replaced.
StatsEvent(c, s) ==
    /\ state[c] = "Connected"
    /\ stats[c] # Some(s)
    /\ stats' = [stats EXCEPT ![c] = Some(s)]
    /\ callers' = Unsettle(callers)
    /\ UNCHANGED << guardVars, hsVars, replaced, inVars, codec, nodes, players, state, addr, held, removed,
                    nextConn, nextPlayer, chanVars >>

\* The writes as they would be if the volume were left out.
ApplyUpdateKeepVolume(p, u) ==
    [p EXCEPT !.time = u.time, !.position = Some(u.position),
              !.paused = u.paused, !.filters = u.filters]

\* The writes through time_mut, position_mut, paused_mut, volume_mut and
\* filters_mut on one Player
ApplyUpdate(p, u) ==
    [p EXCEPT !.time = u.time, !.position = Some(u.position),
              !.paused = u.paused, !.volume = u.volume, !.filters = u.filters]

\* The inbound duty on a player-update event: PlayerManager::get_mut on the
\* guild of the event, and the writes when a Player is there.
PlayerUpdateEvent(c, g, u) ==
    /\ state[c] = "Connected"
    /\ IsSome(players[g])
    /\ players[g] # Some(ApplyUpdate(Unwrap(players[g]), u))
    /\ players' = [players EXCEPT ![g] = Some(ApplyUpdate(Unwrap(players[g]), u))]
    /\ UNCHANGED << guardVars, hsVars, replaced, inVars, codec, nodes, state, addr, stats, held, removed, callers,
                    nextConn, nextPlayer, chanVars >>

\* The update as it would be with an entry().or_insert_with() in place of
\* get_mut: a guild without a Player gets one, which takes the update.
PlayerUpdateApplyOrCreate(ps, g, u) ==
    IF IsSome(ps[g]) THEN [ps EXCEPT ![g] = Some(ApplyUpdate(Unwrap(ps[g]), u))]
    ELSE [ps EXCEPT ![g] = Some(ApplyUpdate(NewPlayer(0, g, 1), u))]

\* PlayerManager::get_mut on the guild and, when a Player is there, the
\* writes of the update through its setters
PlayerUpdateApply(ps, g, u) ==
    IF IsSome(ps[g]) THEN [ps EXCEPT ![g] = Some(ApplyUpdate(Unwrap(ps[g]), u))] ELSE ps

\* Opcode, as serde names its variants (rename_all = "camelCase")
Opcodes ==
    {"empty", "voiceUpdate", "play", "stop", "pause", "seek", "volume",
     "filters", "destroy", "playerUpdate", "event", "stats"}

\* TrackEventType, as serde names its variants
TrackEventTypes ==
    {"TrackStartEvent", "TrackEndEvent", "TrackExceptionEvent",
     "TrackStuckEvent", "WebSocketClosedEvent"}

\* A JSON object is a record; the object has every key of ks
HasKeys(f, ks) == ks \subseteq DOMAIN f

\* The frames a node sends.  A player-update:
FramePlayerUpdate(g, u) == [op |-> "playerUpdate", guildId |-> g, state |-> u]

\* node statistics, with frameStats only when the snapshot has them:
FrameStats(s) ==
    LET base == [op |-> "stats", players |-> s.playing, playingPlayers |-> s.playing,
                 uptime |-> 1, memory |-> "memory", cpu |-> s.cpu]
    IN IF IsSome(s.frames) THEN base @@ ("frameStats" :> Unwrap(s.frames)) ELSE base

\* a track that started:
FrameTrackStart(g) ==
    [op |-> "event", type |-> "TrackStartEvent", guildId |-> g, track |-> "QAAA"]

\* the notification that the voice websocket of a guild was closed:
FrameWebsocketClose(g) ==
    [op |-> "event", type |-> "WebSocketClosedEvent", guildId |-> g,
     reason |-> "gone", code |-> 4006, byRemote |-> TRUE]

\* a track that ended, one that met an exception and one that got stuck:
FrameTrackEnd(g) ==
    [op |-> "event", type |-> "TrackEndEvent", guildId |-> g, track |-> "QAAA",
     reason |-> "FINISHED"]

FrameTrackException(g) ==
    [op |-> "event", type |-> "TrackExceptionEvent", guildId |-> g, track |-> "QAAA",
     error |-> "failed", exception |-> "exception"]

FrameTrackStuck(g) ==
    [op |-> "event", type |-> "TrackStuckEvent", guildId |-> g, track |-> "QAAA",
     thresholdMs |-> 10000]

\* a player-update that lacks its state, and a frame of an operation that
\* is not in the protocol:
FrameMalformed(g) == [op |-> "playerUpdate", guildId |-> g]

FrameUnknown == [op |-> "pong"]

BadFrames == {FrameMalformed(g) : g \in Guilds} \cup {FrameUnknown}

FrameSamples ==
    {FramePlayerUpdate(g, u) : g \in Contended, u \in UpdateSamples}
        \cup {FrameStats(StatsIdle), FrameTrackStart(1), FrameMalformed(1),
              FrameUnknown}

\* The parse of a frame as it would be if PlayerUpdate.state had a serde
\* default: a player-update without state is taken with an empty state.
ParseIncomingDefaultState(f) ==
    IF HasKeys(f, {"op", "guildId"}) /\ f.op = "playerUpdate"
    THEN Some([variant |-> "PlayerUpdate", op |-> f.op, guild_id |-> f.guildId,
               state |-> IF "state" \in DOMAIN f THEN f.state
                         ELSE [time |-> 0, position |-> 0, paused |-> FALSE,
                               volume |-> 0, filters |-> "off"]])
    ELSE << >>

\* serde_json::from_str::<IncomingEvent>: the enum is untagged, so the
\* variants are tried in the order of their declaration and the first
\* whose required fields are all there is taken; fields that a variant
\* does not have are ignored.  None stands for the error.
ParseIncoming(f) ==
    IF ~(HasKeys(f, {"op"}) /\ f.op \in Opcodes) THEN << >>
    ELSE IF HasKeys(f, {"guildId", "state"})
    THEN Some([variant |-> "PlayerUpdate", op |-> f.op, guild_id |-> f.guildId,
               state |-> f.state])
    ELSE IF HasKeys(f, {"players", "playingPlayers", "uptime", "memory", "cpu"})
    THEN Some([variant |-> "Stats", op |-> f.op, playing_players |-> f.playingPlayers,
               cpu |-> f.cpu,
               frames |-> IF "frameStats" \in DOMAIN f THEN Some(f.frameStats) ELSE << >>])
    ELSE IF HasKeys(f, {"type", "guildId", "track", "reason"}) /\ f.type \in TrackEventTypes
    THEN Some([variant |-> "TrackEnd", op |-> f.op, kind |-> f.type,
               guild_id |-> f.guildId, track |-> f.track, reason |-> f.reason])
    ELSE IF HasKeys(f, {"type", "guildId", "track"}) /\ f.type \in TrackEventTypes
    THEN Some([variant |-> "TrackStart", op |-> f.op, kind |-> f.type,
               guild_id |-> f.guildId, track |-> f.track])
    ELSE << >>

\* The snapshot that scoring reads, out of a Stats event
StatsOf(ev) == [playing |-> ev.playing_players, cpu |-> ev.cpu, frames |-> ev.frames]

\* A frame arrives on the transport of connection c.
FrameArrive(c, body) ==
    /\ state[c] = "Connected"
    /\ nextFrame <= MaxFrames
    /\ inbox' = [inbox EXCEPT ![c] = Append(@, [seq |-> nextFrame, body |-> body])]
    /\ nextFrame' = nextFrame + 1
    /\ UNCHANGED << guardVars, hsVars, replaced, pending, published, lastApplied, handled, codec, nodes, players,
                    state, addr, stats, held, removed, callers, nextConn,
                    nextPlayer, chanVars >>

\* The inbound duty as it would be if it took the newest frame first.
InboundTakeNewest(q) == [frame |-> q[Len(q)], rest |-> SubSeq(q, 1, Len(q) - 1)]

\* The inbound duty takes the frames in the order of their arrival.
InboundTake(q) == [frame |-> Head(q), rest |-> Tail(q)]

\* The inbound duty as it would be if a statistics event without frame
\* statistics left those of the snapshot before in the cache.
InboundHandleKeepFrames(c) ==
    /\ state[c] = "Connected"
    /\ inbox[c] # << >>
    /\ ~IsSome(pending[c])
    /\ LET fr == InboundTake(inbox[c]).frame
           ev == ParseIncoming(fr.body)
           isUpdate == IsSome(ev) /\ Unwrap(ev).variant = "PlayerUpdate"
           isStats == IsSome(ev) /\ Unwrap(ev).variant = "Stats"
           kept == IF IsSome(ev) /\ isStats /\ ~IsSome(Unwrap(ev).frames) /\ IsSome(stats[c])
                   THEN [StatsOf(Unwrap(ev)) EXCEPT !.frames = Unwrap(stats[c]).frames]
                   ELSE IF isStats THEN StatsOf(Unwrap(ev)) ELSE << >>
       IN /\ inbox' = [inbox EXCEPT ![c] = InboundTake(inbox[c]).rest]
          /\ handled' = [handled EXCEPT ![c] = fr.seq]
          /\ pending' = [pending EXCEPT ![c] =
                IF IsSome(ev) THEN Some([seq |-> fr.seq, event |-> Unwrap(ev)]) ELSE << >>]
          /\ players' =
                IF isUpdate
                THEN PlayerUpdateApply(players, Unwrap(ev).guild_id, Unwrap(ev).state)
                ELSE players
          /\ lastApplied' =
                IF isUpdate /\ IsSome(players[Unwrap(ev).guild_id])
                THEN [lastApplied EXCEPT ![Unwrap(ev).guild_id] =
                        Some([seq |-> fr.seq, conn |-> c, state |-> Unwrap(ev).state])]
                ELSE lastApplied
          /\ stats' = IF isStats THEN [stats EXCEPT ![c] = Some(kept)] ELSE stats
          /\ callers' = IF isStats THEN Unsettle(callers) ELSE callers
    /\ UNCHANGED << guardVars, hsVars, replaced, published, nextFrame, codec, nodes, state, addr,
                    held, removed, nextConn, nextPlayer, chanVars >>

\* The inbound duty on the next frame: it is parsed; a frame that does not
\* parse is discarded; a player-update is applied to the Player of its
\* guild and a statistics event replaces the cached snapshot; the event is
\* then held for the subscriber stream.
InboundHandle(c) ==
    /\ state[c] = "Connected"
    /\ inbox[c] # << >>
    /\ ~IsSome(pending[c])
    /\ LET fr == InboundTake(inbox[c]).frame
           ev == ParseIncoming(fr.body)
           isUpdate == IsSome(ev) /\ Unwrap(ev).variant = "PlayerUpdate"
           isStats == IsSome(ev) /\ Unwrap(ev).variant = "Stats"
       IN /\ inbox' = [inbox EXCEPT ![c] = InboundTake(inbox[c]).rest]
          /\ handled' = [handled EXCEPT ![c] = fr.seq]
          /\ pending' = [pending EXCEPT ![c] =
                IF IsSome(ev) THEN Some([seq |-> fr.seq, event |-> Unwrap(ev)]) ELSE << >>]
          /\ players' =
                IF isUpdate
                THEN PlayerUpdateApply(players, Unwrap(ev).guild_id, Unwrap(ev).state)
                ELSE players
          /\ lastApplied' =
                IF isUpdate /\ IsSome(players[Unwrap(ev).guild_id])
                THEN [lastApplied EXCEPT ![Unwrap(ev).guild_id] =
                        Some([seq |-> fr.seq, conn |-> c, state |-> Unwrap(ev).state])]
                ELSE lastApplied
          /\ stats' = IF isStats THEN [stats EXCEPT ![c] = Some(StatsOf(Unwrap(ev)))] ELSE stats
          /\ callers' = IF isStats THEN Unsettle(callers) ELSE callers
    /\ UNCHANGED << guardVars, hsVars, replaced, published, nextFrame, codec, nodes, state, addr, held, removed,
                    nextConn, nextPlayer, chanVars >>

\* The inbound duty republishes the event it has handled on the subscriber
\* stream of the connection.
InboundPublish(c) ==
    /\ state[c] # "Closed"
    /\ IsSome(pending[c])
    /\ published' = [published EXCEPT ![c] = Append(@, Unwrap(pending[c]))]
    /\ pending' = [pending EXCEPT ![c] = << >>]
    /\ UNCHANGED << guardVars, hsVars, replaced, inbox, lastApplied, handled, nextFrame, codec, nodes, players,
                    state, addr, stats, held, removed, callers, nextConn,
                    nextPlayer, chanVars >>

\* ------------------------------------------------------- best, player ----
\* Lavalink::best, entry: lowest = i32::MAX, best = None, and the iterator
\* of the node map before its first entry.
BestCall(k) ==
    /\ callers[k].pc = "idle"
    /\ callers' = [callers EXCEPT ![k] = [IdleCall EXCEPT !.pc = "best", !.op = "best"]]
    /\ UNCHANGED << guardVars, hsVars, replaced, inVars, codec, nodes, players, state, addr, stats, held, removed,
                    nextConn, nextPlayer, chanVars >>

\* The entries the iterator of caller k has still to visit.  The iteration
\* of the node map is in ascending address order and is not a snapshot.
Remaining(k) == {a \in Addrs : a > callers[k].cursor /\ IsSome(nodes[a])}

\* The smallest element of a non-empty set of integers
SetMin(S) == CHOOSE x \in S : \A y \in S : x <= y

\* The body of the loop of Lavalink::best for one node c of penalty p
BestPick(call, p, c) ==
    IF p < call.lowest
    THEN [call EXCEPT !.lowest = p, !.best = Some(c)]
    ELSE call

\* Lavalink::best, one turn of the loop: the next entry of the node map,
\* its penalty awaited, and the comparison.
BestStep(k) ==
    /\ callers[k].pc = "best"
    /\ Remaining(k) # {}
    /\ LET a == SetMin(Remaining(k))
           c == Unwrap(nodes[a])
           picked == BestPick(callers[k], Penalty(stats[c]), c)
       IN callers' = [callers EXCEPT ![k] = [picked EXCEPT !.cursor = a]]
    /\ UNCHANGED << guardVars, hsVars, replaced, inVars, codec, nodes, players, state, addr, stats, held, removed,
                    nextConn, nextPlayer, chanVars >>

\* best() as it would end with a fallback in place of the error: when no
\* node was picked, the first connection ever opened is handed out.
BestEndFallback(k) ==
    /\ callers[k].pc = "best"
    /\ Remaining(k) = {}
    /\ LET me == callers[k]
           pick == IF IsSome(me.best) THEN me.best ELSE Some(1)
           out == [IdleCall EXCEPT !.pc = "done", !.op = me.op,
                                   !.guild = me.guild, !.stable = me.stable]
       IN callers' = [callers EXCEPT ![k] =
             IF me.op = "best"
             THEN [out EXCEPT !.ret = [tag |-> "node", val |-> Unwrap(pick)]]
             ELSE [IdleCall EXCEPT !.pc = "insert", !.op = me.op,
                                   !.guild = me.guild, !.best = pick]]
    /\ UNCHANGED << guardVars, hsVars, replaced, inVars, codec, nodes, players, state, addr, stats, held, removed,
                    nextConn, nextPlayer, chanVars >>

\* Lavalink::best, after the loop: best.ok_or(NodesUnconfigured).  Inside
\* player() an error is returned by `?` and a node goes on to get_or_insert.
BestEnd(k) ==
    /\ callers[k].pc = "best"
    /\ Remaining(k) = {}
    /\ LET me == callers[k]
           out == [IdleCall EXCEPT !.pc = "done", !.op = me.op,
                                   !.guild = me.guild, !.stable = me.stable]
       IN callers' = [callers EXCEPT ![k] =
             IF ~IsSome(me.best)
             THEN [out EXCEPT !.ret = [tag |-> "NodesUnconfigured", val |-> 0]]
             ELSE IF me.op = "best"
             THEN [out EXCEPT !.ret = [tag |-> "node", val |-> Unwrap(me.best)]]
             ELSE [IdleCall EXCEPT !.pc = "insert", !.op = me.op,
                                   !.guild = me.guild, !.best = me.best]]
    /\ UNCHANGED << guardVars, hsVars, replaced, inVars, codec, nodes, players, state, addr, stats, held, removed,
                    nextConn, nextPlayer, chanVars >>

\* get_or_insert as it would be with insert in place of or_insert_with: a
\* new Player takes the place of the one that is there.
GetOrInsertAlways(ps, g, id, c) == [ps EXCEPT ![g] = Some(NewPlayer(id, g, c))]

\* get_or_insert as it would be if it gave the Player that is there the
\* node of the call.
GetOrInsertRebind(ps, g, id, c) ==
    IF IsSome(ps[g])
    THEN [ps EXCEPT ![g] = Some([Unwrap(ps[g]) EXCEPT !.node = c])]
    ELSE [ps EXCEPT ![g] = Some(NewPlayer(id, g, c))]

\* PlayerManager::get_or_insert on the player map: entry(guild_id)
\* .or_insert_with(|| Player::new(guild_id, node)), one atomic operation of
\* the map.
GetOrInsert(ps, g, id, c) ==
    IF IsSome(ps[g]) THEN ps ELSE [ps EXCEPT ![g] = Some(NewPlayer(id, g, c))]

\* The result a caller holds after op returned the Player of guild g in
\* the player map ps: from get, or from get_or_insert with node c
PlayerRet(op, ps, g, via, c) ==
    [IdleCall EXCEPT !.pc = "done", !.op = op, !.guild = g,
                     !.ret = [tag |-> "player", val |-> Unwrap(ps[g]).id],
                     !.via = via, !.made = (ps # players), !.passed = c]

\* player() as it would be without the get at its entry: best() is always
\* entered.
PlayerCallNoGet(k, g) ==
    /\ callers[k].pc = "idle"
    /\ callers' = [callers EXCEPT ![k] =
          [IdleCall EXCEPT !.pc = "best", !.op = "player", !.guild = g]]
    /\ UNCHANGED << guardVars, hsVars, replaced, inVars, codec, nodes, players, state, addr, stats, held, removed,
                    nextConn, nextPlayer, chanVars >>

\* Lavalink::player, entry: players().get(&guild_id) and the return of the
\* Player that is there; otherwise best() is entered.
PlayerCall(k, g) ==
    /\ callers[k].pc = "idle"
    /\ callers' = [callers EXCEPT ![k] =
          IF IsSome(PlayerGet(g))
          THEN PlayerRet("player", players, g, "get", << >>)
          ELSE [IdleCall EXCEPT !.pc = "best", !.op = "player", !.guild = g]]
    /\ UNCHANGED << guardVars, hsVars, replaced, inVars, codec, nodes, players, state, addr, stats, held, removed,
                    nextConn, nextPlayer, chanVars >>

\* Lavalink::player, last line: get_or_insert(guild_id, node) with the
\* node that best() returned.
PlayerInsert(k) ==
    /\ callers[k].pc = "insert"
    /\ LET g == callers[k].guild
           ps == GetOrInsert(players, g, nextPlayer, Unwrap(callers[k].best))
       IN /\ IsSome(players[g]) \/ nextPlayer <= MaxPlayers
          /\ players' = ps
          /\ nextPlayer' = IF ps = players THEN nextPlayer ELSE nextPlayer + 1
          /\ callers' = [callers EXCEPT ![k] = PlayerRet("player", ps, g, "insert", callers[k].best)]
    /\ UNCHANGED << guardVars, hsVars, replaced, inVars, codec, nodes, state, addr, stats, held, removed, nextConn, chanVars >>

\* PlayerManager::get_or_insert called directly, with a node the caller
\* has a handle to (its own, or one cloned from the node map).
GetOrInsertCall(k, g, c) ==
    /\ callers[k].pc = "idle"
    /\ held[c] \/ \E a \in Addrs : nodes[a] = Some(c)
    /\ LET ps == GetOrInsert(players, g, nextPlayer, c)
       IN /\ IsSome(players[g]) \/ nextPlayer <= MaxPlayers
          /\ players' = ps
          /\ nextPlayer' = IF ps = players THEN nextPlayer ELSE nextPlayer + 1
          /\ callers' = [callers EXCEPT ![k] = PlayerRet("get_or_insert", ps, g, "insert", Some(c))]
    /\ UNCHANGED << guardVars, hsVars, replaced, inVars, codec, nodes, state, addr, stats, held, removed, nextConn, chanVars >>

\* The caller lets go of the result of its call.
Return(k) ==
    /\ callers[k].pc = "done"
    /\ callers' = [callers EXCEPT ![k] = IdleCall]
    /\ UNCHANGED << guardVars, hsVars, replaced, inVars, codec, nodes, players, state, addr, stats, held, removed,
                    nextConn, nextPlayer, chanVars >>

\* The removal as it would be if it emptied the registry.
PlayersClear(ps, g) == [h \in Guilds |-> << >>]

\* DashMap::remove of the player map
PlayersRemove(ps, g) == [ps EXCEPT ![g] = << >>]

\* PlayerManager::remove: the Player leaves the registry and is returned
\* to the caller, the Node handle in it included.
PlayerRemove(g) ==
    /\ IsSome(players[g])
    /\ players' = PlayersRemove(players, g)
    /\ held' = [held EXCEPT ![Unwrap(players[g]).node] = TRUE]
    /\ callers' = Expire(callers, g)
    /\ lastApplied' = [lastApplied EXCEPT ![g] = << >>]
    /\ UNCHANGED << guardVars, hsVars, replaced, inbox, pending, published, handled, nextFrame, codec, nodes,
                    state, addr, stats, removed, nextConn, nextPlayer, chanVars >>

\* PlayerManager::remove as a call of caller k, which holds what the call
\* returned: Some((guild, Player)) of a registered guild, None of an absent
\* one.  The Node handle of a returned Player is then the caller's.
RemoveCall(k, g) ==
    /\ callers[k].pc = "idle"
    /\ players' = PlayersRemove(players, g)
    /\ held' = IF IsSome(players[g])
               THEN [held EXCEPT ![Unwrap(players[g]).node] = TRUE] ELSE held
    /\ lastApplied' = [lastApplied EXCEPT ![g] = << >>]
    /\ callers' = [Expire(callers, g) EXCEPT ![k] =
          [IdleCall EXCEPT !.pc = "done", !.op = "remove", !.guild = g,
                           !.ret = IF IsSome(players[g])
                                   THEN [tag |-> "removed", val |-> Unwrap(players[g]).id]
                                   ELSE [tag |-> "None", val |-> 0]]]
    /\ UNCHANGED << guardVars, hsVars, replaced, inbox, pending, published, handled, nextFrame, codec, nodes,
                    state, addr, stats, removed, nextConn, nextPlayer, chanVars >>

\* ------------------------------------------------- the node connection ----
\* The kinds of command the callers send
CmdOps == {"play", "destroy"}

\* send as it would be if it refused every command while the transport is
\* down.
NodeSendConnectedOnly(c, cmd) ==
    /\ lastSend' = [tag |-> IF state[c] # "Connected" THEN "Err" ELSE "Ok",
                    conn |-> c, cmd |-> cmd.id, at |-> state[c],
                    removed |-> removed[c]]
    /\ queue' = [queue EXCEPT ![c] = IF state[c] # "Connected" THEN @ ELSE Append(@, cmd)]
    /\ accepted' = [accepted EXCEPT ![c] = IF state[c] # "Connected" THEN @ ELSE Append(@, cmd)]

\* Node::send: a non-blocking enqueue on the unbounded outbound queue,
\* which fails, handing the command back, only when the outbound duty has
\* ended.  lastSend keeps what the caller got, the state the connection
\* was in and whether Lavalink::remove had taken the node by then.
NodeSend(c, cmd) ==
    /\ lastSend' = [tag |-> IF state[c] = "Closed" THEN "Err" ELSE "Ok",
                    conn |-> c, cmd |-> cmd.id, at |-> state[c],
                    removed |-> removed[c]]
    /\ queue' = [queue EXCEPT ![c] = IF state[c] = "Closed" THEN @ ELSE Append(@, cmd)]
    /\ accepted' = [accepted EXCEPT ![c] = IF state[c] = "Closed" THEN @ ELSE Append(@, cmd)]

\* Player::send as it would be if the event went to the connection opened
\* last and not to the node of the Player.
PlayerSendNewest(g, op) ==
    /\ IsSome(players[g])
    /\ nextCmd <= MaxCmds
    /\ NodeSend(nextConn - 1, [id |-> nextCmd, guild |-> g, op |-> op])
    /\ nextCmd' = nextCmd + 1
    /\ UNCHANGED << guardVars, hsVars, replaced, inVars, codec, nodes, players, state, addr, stats, held, removed, callers,
                    nextConn, nextPlayer, wire, dropped >>

\* Player::send as it would be if the Player took the effect of the
\* command at once: a pause sets its paused flag and a destroy takes it out
\* of the registry.
PlayerSendApplies(g, op) ==
    /\ IsSome(players[g])
    /\ nextCmd <= MaxCmds
    /\ NodeSend(Unwrap(players[g]).node, [id |-> nextCmd, guild |-> g, op |-> op])
    /\ nextCmd' = nextCmd + 1
    /\ players' = [players EXCEPT ![g] =
          CASE op = "pause" -> Some([Unwrap(players[g]) EXCEPT !.paused = TRUE])
            [] op = "destroy" -> << >>
            [] OTHER -> players[g]]
    /\ UNCHANGED << guardVars, hsVars, replaced, inVars, codec, nodes, state, addr, stats, held,
                    removed, callers, nextConn, nextPlayer, wire, dropped >>

\* Player::send: the event goes to the send of the node the Player was
\* created with, and the result of that send is the result.
PlayerSend(g, op) ==
    /\ IsSome(players[g])
    /\ nextCmd <= MaxCmds
    /\ NodeSend(Unwrap(players[g]).node, [id |-> nextCmd, guild |-> g, op |-> op])
    /\ nextCmd' = nextCmd + 1
    /\ UNCHANGED << guardVars, hsVars, replaced, inVars, codec, nodes, players, state, addr, stats, held, removed, callers,
                    nextConn, nextPlayer, wire, dropped >>

\* The outbound duty as it would be if it took the newest command of the
\* queue first.
OutboundWriteNewest(c) ==
    /\ state[c] = "Connected"
    /\ queue[c] # << >>
    /\ wire' = [wire EXCEPT ![c] = Append(@, queue[c][Len(queue[c])])]
    /\ queue' = [queue EXCEPT ![c] = SubSeq(@, 1, Len(@) - 1)]
    /\ UNCHANGED << guardVars, hsVars, replaced, inVars, codec, nodes, players, state, addr, stats, held, removed, callers,
                    nextConn, nextPlayer, accepted, nextCmd, lastSend, dropped >>

\* The outbound duty: the command at the head of the queue is written to
\* the transport.
OutboundWrite(c) ==
    /\ state[c] = "Connected"
    /\ queue[c] # << >>
    /\ wire' = [wire EXCEPT ![c] = Append(@, Head(queue[c]))]
    /\ queue' = [queue EXCEPT ![c] = Tail(@)]
    /\ UNCHANGED << guardVars, hsVars, replaced, inVars, codec, nodes, players, state, addr, stats, held, removed, callers,
                    nextConn, nextPlayer, accepted, nextCmd, lastSend, dropped >>

\* The transport failure as it would be if a failed retry of the handshake
\* were one too: Reconnecting falls back to Disconnected.
TransportFailOnRetry(c) ==
    /\ state[c] \in {"Connected", "Reconnecting"}
    /\ state' = [state EXCEPT ![c] = "Disconnected"]
    /\ queue' = [queue EXCEPT ![c] = << >>]
    /\ dropped' = [dropped EXCEPT ![c] = @ \cup Unsent(queue[c])]
    /\ UNCHANGED << guardVars, hsVars, replaced, inVars, codec, nodes, players, addr, stats, held, removed, callers,
                    nextConn, nextPlayer, wire, accepted, nextCmd, lastSend >>

\* The transport failure as it would be if the outbound duty kept its queue
\* across the failure.
TransportFailKeepQueue(c) ==
    /\ state[c] = "Connected"
    /\ state' = [state EXCEPT ![c] = "Disconnected"]
    /\ dropped' = [dropped EXCEPT ![c] = @ \cup Unsent(queue[c])]
    /\ UNCHANGED << guardVars, hsVars, replaced, inVars, codec, nodes, players, addr, stats, held, removed, callers,
                    nextConn, nextPlayer, queue, wire, accepted, nextCmd, lastSend >>

\* The transport fails while Connected: the connection is Disconnected and
\* the commands still unsent are dropped.
TransportFail(c) ==
    /\ state[c] = "Connected"
    /\ state' = [state EXCEPT ![c] = "Disconnected"]
    /\ queue' = [queue EXCEPT ![c] = << >>]
    /\ dropped' = [dropped EXCEPT ![c] = @ \cup Unsent(queue[c])]
    /\ UNCHANGED << guardVars, hsVars, replaced, inVars, codec, nodes, players, addr, stats, held, removed, callers,
                    nextConn, nextPlayer, wire, accepted, nextCmd, lastSend >>

\* The reconnection as it would be if it were started once in the life of
\* a connection only.
ReconnectBeginOnce(c) ==
    /\ state[c] = "Disconnected"
    /\ request[c].kind = "connect"
    /\ state' = [state EXCEPT ![c] = "Reconnecting"]
    /\ UNCHANGED << guardVars, hsVars, replaced, inVars, codec, nodes, players, addr, stats, held,
                    removed, callers, nextConn, nextPlayer, chanVars >>

\* The reconnection starts: Disconnected -> Reconnecting.
ReconnectBegin(c) ==
    /\ state[c] = "Disconnected"
    /\ state' = [state EXCEPT ![c] = "Reconnecting"]
    /\ UNCHANGED << guardVars, hsVars, replaced, inVars, codec, nodes, players, addr, stats, held, removed, callers,
                    nextConn, nextPlayer, chanVars >>

\* A retried handshake is refused or gets no answer: the connection stays
\* Reconnecting and tries again after the delay.
ReconnectFail(c) ==
    /\ state[c] = "Reconnecting"
    /\ retries[c] < MaxRetries
    /\ retries' = [retries EXCEPT ![c] = @ + 1]
    /\ request' = [request EXCEPT ![c] = Handshake("retry", c)]
    /\ UNCHANGED << guardVars, resume, replaced, inVars, codec, nodes, players, state, addr, stats, held,
                    removed, callers, nextConn, nextPlayer, chanVars >>

\* A retried handshake as it would be if it never asked for a resume.
ReconnectOkFresh(c) ==
    /\ state[c] = "Reconnecting"
    /\ state' = [state EXCEPT ![c] = "Connected"]
    /\ request' = [request EXCEPT ![c] = [kind |-> "retry", resume |-> << >>]]
    /\ retries' = [retries EXCEPT ![c] = 0]
    /\ UNCHANGED << guardVars, resume, replaced, inVars, codec, nodes, players, addr, stats, held, removed,
                    callers, nextConn, nextPlayer, chanVars >>

\* A retried handshake succeeds: Reconnecting -> Connected.
ReconnectOk(c) ==
    /\ state[c] = "Reconnecting"
    /\ state' = [state EXCEPT ![c] = "Connected"]
    /\ request' = [request EXCEPT ![c] = Handshake("retry", c)]
    /\ retries' = [retries EXCEPT ![c] = 0]
    /\ UNCHANGED << guardVars, resume, replaced, inVars, codec, nodes, players, addr, stats, held, removed, callers,
                    nextConn, nextPlayer, chanVars >>

\* --------------------------------------------------- outbound commands ----
\* The name serde gives an Opcode in JSON (rename_all = "camelCase")
OpcodeJson ==
    [Empty |-> "empty", VoiceUpdate |-> "voiceUpdate", Play |-> "play",
     Stop |-> "stop", Pause |-> "pause", Seek |-> "seek", Volume |-> "volume",
     Filters |-> "filters", Destroy |-> "destroy", PlayerUpdate |-> "playerUpdate",
     Event |-> "event", Stats |-> "stats"]

\* The Opcode that a JSON name parses to
OpcodeOf(name) == CHOOSE op \in DOMAIN OpcodeJson : OpcodeJson[op] = name

\* A GuildId is written as a JSON string of its digits and parsed from it
GuildIdJson(g) == << "id", g >>

GuildIdOf(j) == j[2]

\* The constructors of the commands (the From impls), which set op
VoiceUpdateNew(g, session, event) ==
    [variant |-> "VoiceUpdate", op |-> "VoiceUpdate", session_id |-> session,
     guild_id |-> g, event |-> event]

PlayNew(g, track, start, end, noReplace) ==
    [variant |-> "Play", op |-> "Play", guild_id |-> g, track |-> track,
     start_time |-> start, end_time |-> end, no_replace |-> noReplace]

StopNew(g) == [variant |-> "Stop", op |-> "Stop", guild_id |-> g]

PauseNew(g, pause) == [variant |-> "Pause", op |-> "Pause", guild_id |-> g, pause |-> pause]

SeekNew(g, position) ==
    [variant |-> "Seek", op |-> "Seek", guild_id |-> g, position |-> position]

VolumeNew(g, volume) ==
    [variant |-> "Volume", op |-> "Volume", guild_id |-> g, volume |-> volume]

FiltersNew(g, karaoke, timescale, tremolo, vibrato, equalizer) ==
    [variant |-> "Filters", op |-> "Filters", guild_id |-> g, karaoke |-> karaoke,
     timescale |-> timescale, tremolo |-> tremolo, vibrato |-> vibrato,
     equalizer |-> equalizer]

DestroyNew(g) == [variant |-> "Destroy", op |-> "Destroy", guild_id |-> g]

\* Karaoke::from((level, mono_level, filter_band, filter_width)) and the
\* like: enabled is false
KaraokeNew(level, mono, band, width) ==
    [level |-> level, mono_level |-> mono, filter_band |-> band,
     filter_width |-> width, enabled |-> FALSE]

TimescaleNew(speed, pitch, rate) ==
    [speed |-> speed, pitch |-> pitch, rate |-> rate, enabled |-> FALSE]

TremoloNew(frequency, depth) == [frequency |-> frequency, depth |-> depth, enabled |-> FALSE]

EqualizerNew(bands) == [bands |-> bands, enabled |-> FALSE]

\* The command values the round trip is tried on
OutgoingSamples ==
    {VoiceUpdateNew(g, "session", [endpoint |-> e, token |-> "token"]) :
        g \in Guilds, e \in {<< >>, << "host" >>}}
    \cup {PlayNew(g, "QAAA", s, e, n) :
        g \in Guilds, s \in {<< >>, << 0 >>}, e \in {<< >>, << 9 >>}, n \in BOOLEAN}
    \cup {StopNew(g) : g \in Guilds}
    \cup {PauseNew(g, p) : g \in Guilds, p \in BOOLEAN}
    \cup {SeekNew(g, p) : g \in Guilds, p \in {-1, 0, 5}}
    \cup {VolumeNew(g, v) : g \in Guilds, v \in {0, 100, 1000}}
    \cup {FiltersNew(g, k, t, << >>, << >>, q) :
        g \in Guilds, k \in {<< >>, << KaraokeNew(1, 1, 220, 100) >>},
        t \in {<< >>, << TimescaleNew(1, 1, 1) >>},
        q \in {<< >>, << EqualizerNew(<< [band |-> 0, gain |-> 1] >>) >>}}
    \cup {DestroyNew(g) : g \in Guilds}

\* A JSON object with the key k added when the Option o is Some
\* (skip_serializing_if = "Option::is_none"); v is the JSON of the value
WithKey(obj, k, o, v) == IF IsSome(o) THEN obj @@ (k :> v) ELSE obj

\* The JSON of a filter field, which may be None: enabled is not written
\* (skip_serializing)
KaraokeJson(o) ==
    IF ~IsSome(o) THEN << >>
    ELSE LET k == Unwrap(o)
         IN [level |-> k.level, monoLevel |-> k.mono_level,
             filterBand |-> k.filter_band, filterWidth |-> k.filter_width]

TimescaleJson(o) ==
    IF ~IsSome(o) THEN << >>
    ELSE LET t == Unwrap(o) IN [speed |-> t.speed, pitch |-> t.pitch, rate |-> t.rate]

TremoloJson(o) ==
    IF ~IsSome(o) THEN << >>
    ELSE LET t == Unwrap(o) IN [frequency |-> t.frequency, depth |-> t.depth]

EqualizerJson(o) ==
    IF ~IsSome(o) THEN << >> ELSE [bands |-> Unwrap(o).bands]

\* serde_json::to_string of an OutgoingEvent: the enum is untagged, so the
\* JSON is that of the struct inside; the keys are in camelCase.
SerializeOutgoing(ev) ==
    LET head == [op |-> OpcodeJson[ev.op], guildId |-> GuildIdJson(ev.guild_id)]
    IN CASE ev.variant = "VoiceUpdate" ->
              head @@ [sessionId |-> ev.session_id,
                       event |-> [endpoint |-> ev.event.endpoint, token |-> ev.event.token]]
         [] ev.variant = "Play" ->
              WithKey(WithKey(head @@ [track |-> ev.track, noReplace |-> ev.no_replace],
                              "startTime", ev.start_time, ev.start_time),
                      "endTime", ev.end_time, ev.end_time)
         [] ev.variant = "Pause" -> head @@ [pause |-> ev.pause]
         [] ev.variant = "Seek" -> head @@ [position |-> ev.position]
         [] ev.variant = "Volume" -> head @@ [volume |-> ev.volume]
         [] ev.variant = "Filters" ->
              WithKey(WithKey(WithKey(WithKey(WithKey(head,
                  "karaoke", ev.karaoke, KaraokeJson(ev.karaoke)),
                  "timescale", ev.timescale, TimescaleJson(ev.timescale)),
                  "tremolo", ev.tremolo, TremoloJson(ev.tremolo)),
                  "vibrato", ev.vibrato, TremoloJson(ev.vibrato)),
                  "equalizer", ev.equalizer, EqualizerJson(ev.equalizer))
         [] OTHER -> head

\* The value of an Option field of a struct: None when the key is absent
OptKey(obj, k) == IF k \in DOMAIN obj THEN obj[k] ELSE << >>

\* Deserialize of the structs, each None on an error.  A field that is not
\* an Option must be there; keys the struct does not have are ignored.
ParseStop(j) ==
    IF HasKeys(j, {"op", "guildId"}) /\ j.op \in Opcodes
    THEN Some([variant |-> "Stop", op |-> OpcodeOf(j.op), guild_id |-> GuildIdOf(j.guildId)])
    ELSE << >>

ParseVoiceUpdate(j) ==
    IF HasKeys(j, {"op", "guildId", "sessionId", "event"}) /\ j.op \in Opcodes
         /\ HasKeys(j.event, {"token"})
    THEN Some([variant |-> "VoiceUpdate", op |-> OpcodeOf(j.op),
               session_id |-> j.sessionId, guild_id |-> GuildIdOf(j.guildId),
               event |-> [endpoint |-> OptKey(j.event, "endpoint"), token |-> j.event.token]])
    ELSE << >>

ParsePlay(j) ==
    IF HasKeys(j, {"op", "guildId", "track", "noReplace"}) /\ j.op \in Opcodes
    THEN Some([variant |-> "Play", op |-> OpcodeOf(j.op), guild_id |-> GuildIdOf(j.guildId),
               track |-> j.track, start_time |-> OptKey(j, "startTime"),
               end_time |-> OptKey(j, "endTime"), no_replace |-> j.noReplace])
    ELSE << >>

\* serde_json::from_str::<OutgoingEvent>: the variants of the untagged enum
\* are tried in the order of their declaration, VoiceUpdate, Play, Stop,
\* Pause, Seek, Volume, Filters, Destroy, and the first that deserializes
\* is the result.  Stop needs op and guildId only, which every command
\* has, so none of the variants after it is ever reached.
ParseOutgoing(j) ==
    IF IsSome(ParseVoiceUpdate(j)) THEN ParseVoiceUpdate(j)
    ELSE IF IsSome(ParsePlay(j)) THEN ParsePlay(j)
    ELSE ParseStop(j)

\* A command is wrapped as an OutgoingEvent and serialized.
Encode(ev) ==
    /\ ~IsSome(codec.event) \/ IsSome(codec.parsed)
    /\ codec' = [event |-> Some(ev), json |-> Some(SerializeOutgoing(ev)), parsed |-> << >>]
    /\ UNCHANGED << guardVars, hsVars, replaced, inVars, nodes, players, state, addr, stats, held, removed, callers,
                    nextConn, nextPlayer, chanVars >>

\* The JSON is parsed back as an OutgoingEvent.
Decode ==
    /\ IsSome(codec.json)
    /\ ~IsSome(codec.parsed)
    /\ codec' = [codec EXCEPT !.parsed = Some(ParseOutgoing(Unwrap(codec.json)))]
    /\ UNCHANGED << guardVars, hsVars, replaced, inVars, nodes, players, state, addr, stats, held, removed, callers,
                    nextConn, nextPlayer, chanVars >>

\* ------------------------------------------------ the guards of the maps ----
\* A DashMap keeps its entries in shards, each behind a read-write lock.  A
\* Ref holds the read lock of the shard of its key, a RefMut the write lock,
\* and the entry an iterator stands on the read lock of its shard, each for
\* as long as it lives.  The lock calls block the thread: a task that waits
\* for a lock does nothing else, the drop of its own guards included.
\*
\* The hashers the maps can be built with.  The shard of a key follows from
\* the hasher's random keys; the first guild and the first address name
\* shard 1, the others share it or not.
Hashers ==
    {h \in [players : [Guilds -> Shards], nodes : [Addrs -> Shards]] :
        h.players[1] = 1 /\ h.nodes[1] = 1}

\* Lavalink::new: DashMap::new for the node map and PlayerManager::new for
\* the player map, each with a hasher of its own.
LavalinkNew(h) ==
    /\ hasher = << >>
    /\ hasher' = Some(h)
    /\ UNCHANGED << tasks, guards, hsVars, replaced, inVars, codec, nodes, players, state, addr,
                    stats, held, removed, callers, nextConn, nextPlayer, chanVars >>

\* The shard of a key of the player map ("players") or the node map ("nodes")
ShardOf(map, key) == Unwrap(hasher)[map][key]

\* Ref<'_, GuildId, Player> of task t
Ref(t, g) == [owner |-> t, map |-> "players", key |-> g, kind |-> "ref"]

\* RefMut<'_, GuildId, Player> of task t
RefMut(t, g) == [owner |-> t, map |-> "players", key |-> g, kind |-> "mut"]

\* The entry of the node map the iterator of task t stands on
RefMulti(t, a) == [owner |-> t, map |-> "nodes", key |-> a, kind |-> "iter"]

\* The guards that hold the lock of the shard of a key
OnShard(map, key) ==
    {gd \in guards : gd.map = map /\ ShardOf(map, gd.key) = ShardOf(map, key)}

\* The read lock of the shard of a key can be taken: no write lock is held
ReadFree(map, key) == \A gd \in OnShard(map, key) : gd.kind # "mut"

\* The write lock of the shard of a key can be taken: no lock is held
WriteFree(map, key) == OnShard(map, key) = {}

\* The calls under way that can still construct a Player
Creators == {t \in Callers : tasks[t].op \in {"get_or_insert", "player"}}

\* A task enters an operation
Enter(t, call) == [tasks EXCEPT ![t] = call]

\* A task leaves its operation
Leave(t) == [tasks EXCEPT ![t] = IdleTask]

\* PlayerManager::get is called by caller t.
GetBegin(t, g) ==
    /\ IsSome(hasher)
    /\ tasks[t].pc = "idle"
    /\ tasks' = Enter(t, [IdleTask EXCEPT !.pc = "get", !.op = "get", !.guild = g])
    /\ UNCHANGED << hasher, guards, hsVars, replaced, inVars, codec, nodes, players, state, addr,
                    stats, held, removed, callers, nextConn, nextPlayer, chanVars >>

\* Lavalink::player is called by caller t: it starts with players().get.
PlayerBegin(t, g) ==
    /\ IsSome(hasher)
    /\ tasks[t].pc = "idle"
    /\ nextPlayer + Cardinality(Creators) <= MaxPlayers
    /\ tasks' = Enter(t, [IdleTask EXCEPT !.pc = "get", !.op = "player", !.guild = g])
    /\ UNCHANGED << hasher, guards, hsVars, replaced, inVars, codec, nodes, players, state, addr,
                    stats, held, removed, callers, nextConn, nextPlayer, chanVars >>

\* The get as it would be without the lock of the shard: the reference
\* is handed out whatever guards are held.
GetLockFree(t) ==
    /\ tasks[t].pc = "get"
    /\ LET g == tasks[t].guild
       IN IF IsSome(players[g])
          THEN /\ guards' = guards \cup {Ref(t, g)}
               /\ tasks' = Leave(t)
          ELSE /\ guards' = guards
               /\ tasks' = IF tasks[t].op = "player"
                           THEN [tasks EXCEPT ![t].pc = "iter"]
                           ELSE Leave(t)
    /\ UNCHANGED << hasher, hsVars, replaced, inVars, codec, nodes, players, state, addr,
                    stats, held, removed, callers, nextConn, nextPlayer, chanVars >>

\* DashMap::get inside PlayerManager::get: the read lock of the shard is
\* taken once no write lock is held; a Player that is there is returned
\* behind a Ref, which keeps the lock, and without one the lock is let go.
\* Inside Lavalink::player the miss goes on to best().
GetLock(t) ==
    /\ tasks[t].pc = "get"
    /\ ReadFree("players", tasks[t].guild)
    /\ LET g == tasks[t].guild
       IN IF IsSome(players[g])
          THEN /\ guards' = guards \cup {Ref(t, g)}
               /\ tasks' = Leave(t)
          ELSE /\ guards' = guards
               /\ tasks' = IF tasks[t].op = "player"
                           THEN [tasks EXCEPT ![t].pc = "iter"]
                           ELSE Leave(t)
    /\ UNCHANGED << hasher, hsVars, replaced, inVars, codec, nodes, players, state, addr,
                    stats, held, removed, callers, nextConn, nextPlayer, chanVars >>

\* PlayerManager::get_or_insert is called by caller t with a node cloned
\* from the node map.
GetOrInsertBegin(t, g, c) ==
    /\ IsSome(hasher)
    /\ tasks[t].pc = "idle"
    /\ \E a \in Addrs : nodes[a] = Some(c)
    /\ nextPlayer + Cardinality(Creators) <= MaxPlayers
    /\ tasks' = Enter(t, [IdleTask EXCEPT !.pc = "entry", !.op = "get_or_insert",
                                          !.guild = g, !.best = Some(c)])
    /\ UNCHANGED << hasher, guards, hsVars, replaced, inVars, codec, nodes, players, state, addr,
                    stats, held, removed, callers, nextConn, nextPlayer, chanVars >>

\* DashMap::entry inside PlayerManager::get_or_insert: the write lock of
\* the shard is taken once no lock of it is held.
EntryLock(t) ==
    /\ tasks[t].pc = "entry"
    /\ WriteFree("players", tasks[t].guild)
    /\ guards' = guards \cup {RefMut(t, tasks[t].guild)}
    /\ tasks' = [tasks EXCEPT ![t].pc = "insert"]
    /\ UNCHANGED << hasher, hsVars, replaced, inVars, codec, nodes, players, state, addr,
                    stats, held, removed, callers, nextConn, nextPlayer, chanVars >>

\* Entry::or_insert_with(|| Player::new(guild_id, node)) under the write
\* lock: a vacant entry takes the Player, built whole before it is put in.
\* get_or_insert returns the RefMut; Lavalink::player returns it
\* downgraded to a Ref.
OrInsertWith(t) ==
    /\ tasks[t].pc = "insert"
    /\ LET g == tasks[t].guild
           ps == GetOrInsert(players, g, nextPlayer, Unwrap(tasks[t].best))
       IN /\ players' = ps
          /\ nextPlayer' = IF ps = players THEN nextPlayer ELSE nextPlayer + 1
          /\ guards' = IF tasks[t].op = "player"
                       THEN (guards \ {RefMut(t, g)}) \cup {Ref(t, g)}
                       ELSE guards
    /\ tasks' = Leave(t)
    /\ UNCHANGED << hasher, hsVars, replaced, inVars, codec, nodes, state, addr,
                    stats, held, removed, callers, nextConn, chanVars >>

\* PlayerManager::remove is called by caller t.
RemoveBegin(t, g) ==
    /\ IsSome(hasher)
    /\ tasks[t].pc = "idle"
    /\ tasks' = Enter(t, [IdleTask EXCEPT !.pc = "remove", !.op = "remove", !.guild = g])
    /\ UNCHANGED << hasher, guards, hsVars, replaced, inVars, codec, nodes, players, state, addr,
                    stats, held, removed, callers, nextConn, nextPlayer, chanVars >>

\* DashMap::remove inside PlayerManager::remove: the write lock of the
\* shard is taken once no lock of it is held, the entry is taken out and
\* returned, and the lock is let go.
RemoveLock(t) ==
    /\ tasks[t].pc = "remove"
    /\ WriteFree("players", tasks[t].guild)
    /\ LET g == tasks[t].guild
       IN /\ players' = PlayersRemove(players, g)
          /\ held' = IF IsSome(players[g])
                     THEN [held EXCEPT ![Unwrap(players[g]).node] = TRUE] ELSE held
    /\ tasks' = Leave(t)
    /\ UNCHANGED << hasher, guards, hsVars, replaced, inVars, codec, nodes, state, addr,
                    stats, removed, callers, nextConn, nextPlayer, chanVars >>

\* A caller outside every call drops a Ref or a RefMut it was given.
DropGuard(t, gd) ==
    /\ tasks[t].pc = "idle"
    /\ gd \in guards
    /\ gd.owner = t
    /\ guards' = guards \ {gd}
    /\ UNCHANGED << hasher, tasks, hsVars, replaced, inVars, codec, nodes, players, state, addr,
                    stats, held, removed, callers, nextConn, nextPlayer, chanVars >>
\* Lavalink::best is called by caller t: lowest = i32::MAX, best = None,
\* and the iterator of the node map before its first entry.
BestBegin(t) ==
    /\ IsSome(hasher)
    /\ tasks[t].pc = "idle"
    /\ tasks' = Enter(t, [IdleTask EXCEPT !.pc = "iter", !.op = "best"])
    /\ UNCHANGED << hasher, guards, hsVars, replaced, inVars, codec, nodes, players, state, addr,
                    stats, held, removed, callers, nextConn, nextPlayer, chanVars >>

\* The entries the iterator of task t has still to visit
Unvisited(t) == {a \in Addrs : a > tasks[t].cursor /\ IsSome(nodes[a])}

\* The guards the iterator of task t holds
IterGuards(t) == {gd \in guards : gd.owner = t /\ gd.kind = "iter"}

\* Lavalink::best, the head of the loop: the iterator lets go of the entry
\* it stood on and takes the read lock of the shard of the next one; the
\* loop body then awaits the penalty of that entry with the lock held.
BestNext(t) ==
    /\ tasks[t].pc = "iter"
    /\ Unvisited(t) # {}
    /\ LET a == SetMin(Unvisited(t))
       IN /\ ReadFree("nodes", a)
          /\ guards' = (guards \ IterGuards(t)) \cup {RefMulti(t, a)}
          /\ tasks' = [tasks EXCEPT ![t].pc = "penalty", ![t].cursor = a]
    /\ UNCHANGED << hasher, hsVars, replaced, inVars, codec, nodes, players, state, addr,
                    stats, held, removed, callers, nextConn, nextPlayer, chanVars >>

\* Lavalink::best, the loop body once penalty().await has returned: the
\* comparison with the lowest penalty so far.
BestPenalty(t) ==
    /\ tasks[t].pc = "penalty"
    /\ LET c == Unwrap(nodes[tasks[t].cursor])
           picked == BestPick(tasks[t], Penalty(stats[c]), c)
       IN tasks' = [tasks EXCEPT ![t] = [picked EXCEPT !.pc = "iter"]]
    /\ UNCHANGED << hasher, guards, hsVars, replaced, inVars, codec, nodes, players, state, addr,
                    stats, held, removed, callers, nextConn, nextPlayer, chanVars >>

\* Lavalink::best, after the loop: the iterator is dropped and
\* best.ok_or(NodesUnconfigured) is returned.  Inside Lavalink::player an
\* error is returned by `?` and a node goes on to get_or_insert.
BestDone(t) ==
    /\ tasks[t].pc = "iter"
    /\ Unvisited(t) = {}
    /\ guards' = guards \ IterGuards(t)
    /\ tasks' = IF tasks[t].op = "player" /\ IsSome(tasks[t].best)
                THEN [tasks EXCEPT ![t].pc = "entry"]
                ELSE Leave(t)
    /\ UNCHANGED << hasher, hsVars, replaced, inVars, codec, nodes, players, state, addr,
                    stats, held, removed, callers, nextConn, nextPlayer, chanVars >>

\* Lavalink::add is called by caller t and Node::connect returns Ok: a
\* new connection for the address is Connected and waits to be inserted.
AddBegin(t, a) ==
    /\ IsSome(hasher)
    /\ tasks[t].pc = "idle"
    /\ nextConn <= MaxConns
    /\ state' = [state EXCEPT ![nextConn] = "Connected"]
    /\ addr' = [addr EXCEPT ![nextConn] = a]
    /\ request' = [request EXCEPT ![nextConn] = [kind |-> "connect", resume |-> << >>]]
    /\ nextConn' = nextConn + 1
    /\ tasks' = Enter(t, [IdleTask EXCEPT !.pc = "nodes_insert", !.op = "add",
                                          !.address = a, !.best = Some(nextConn)])
    /\ UNCHANGED << hasher, guards, resume, retries, replaced, inVars, codec, nodes, players,
                    stats, held, removed, callers, nextPlayer, chanVars >>

\* DashMap::insert inside Lavalink::add_with_resume: the write lock of the
\* shard of the address is taken once no lock of it is held, the entry
\* becomes the new node, and the lock is let go.
AddInsert(t) ==
    /\ tasks[t].pc = "nodes_insert"
    /\ WriteFree("nodes", tasks[t].address)
    /\ LET a == tasks[t].address
           c == Unwrap(tasks[t].best)
       IN /\ nodes' = NodesInsert(nodes, a, c)
          /\ held' = [held EXCEPT ![c] = TRUE]
          /\ replaced' = IF IsSome(nodes[a])
                         THEN [replaced EXCEPT ![Unwrap(nodes[a])] = TRUE] ELSE replaced
    /\ tasks' = Leave(t)
    /\ UNCHANGED << hasher, guards, hsVars, inVars, codec, players, state, addr,
                    stats, removed, callers, nextConn, nextPlayer, chanVars >>

\* Lavalink::remove is called by caller t.
NodeRemoveBegin(t, a) ==
    /\ IsSome(hasher)
    /\ tasks[t].pc = "idle"
    /\ tasks' = Enter(t, [IdleTask EXCEPT !.pc = "nodes_remove", !.op = "node_remove",
                                          !.address = a])
    /\ UNCHANGED << hasher, guards, hsVars, replaced, inVars, codec, nodes, players, state, addr,
                    stats, held, removed, callers, nextConn, nextPlayer, chanVars >>

\* DashMap::remove inside Lavalink::remove: the write lock of the shard of
\* the address is taken once no lock of it is held, the entry is taken out
\* and returned, and the lock is let go.
NodeRemoveLock(t) ==
    /\ tasks[t].pc = "nodes_remove"
    /\ WriteFree("nodes", tasks[t].address)
    /\ LET a == tasks[t].address
       IN /\ nodes' = NodesRemove(nodes, a)
          /\ held' = IF IsSome(nodes[a])
                     THEN [held EXCEPT ![Unwrap(nodes[a])] = TRUE] ELSE held
          /\ removed' = IF IsSome(nodes[a])
                        THEN [removed EXCEPT ![Unwrap(nodes[a])] = TRUE] ELSE removed
    /\ tasks' = Leave(t)
    /\ UNCHANGED << hasher, guards, hsVars, replaced, inVars, codec, players, state, addr,
                    stats, callers, nextConn, nextPlayer, chanVars >>

\* The inbound duty of a connection takes a player-update event for guild
\* g and calls PlayerManager::get_mut.
UpdateBegin(c, g, u) ==
    /\ IsSome(hasher)
    /\ tasks[Duty].pc = "idle"
    /\ state[c] = "Connected"
    /\ tasks' = Enter(Duty, [IdleTask EXCEPT !.pc = "get_mut", !.op = "update",
                                             !.guild = g, !.update = Some(u)])
    /\ UNCHANGED << hasher, guards, hsVars, replaced, inVars, codec, nodes, players, state, addr,
                    stats, held, removed, callers, nextConn, nextPlayer, chanVars >>

\* DashMap::get_mut inside PlayerManager::get_mut: the write lock of the
\* shard is taken once no lock of it is held; a Player that is there is
\* returned behind a RefMut, which keeps the lock, and without one the
\* lock is let go and the event changes nothing.
UpdateLock ==
    /\ tasks[Duty].pc = "get_mut"
    /\ WriteFree("players", tasks[Duty].guild)
    /\ LET g == tasks[Duty].guild
       IN IF IsSome(players[g])
          THEN /\ guards' = guards \cup {RefMut(Duty, g)}
               /\ tasks' = [tasks EXCEPT ![Duty].pc = "write", ![Duty].field = 1]
          ELSE /\ guards' = guards
               /\ tasks' = Leave(Duty)
    /\ UNCHANGED << hasher, hsVars, replaced, inVars, codec, nodes, players, state, addr,
                    stats, held, removed, callers, nextConn, nextPlayer, chanVars >>

\* The cached fields of a Player, in the order the event lists them
UpdateFields == << "time", "position", "paused", "volume", "filters" >>

\* One write through a setter of the Player: field i takes the value the
\* update carries for it
WriteField(p, u, i) ==
    CASE i = 1 -> [p EXCEPT !.time = u.time]
      [] i = 2 -> [p EXCEPT !.position = Some(u.position)]
      [] i = 3 -> [p EXCEPT !.paused = u.paused]
      [] i = 4 -> [p EXCEPT !.volume = u.volume]
      [] i = 5 -> [p EXCEPT !.filters = u.filters]

\* The inbound duty writes the next cached field through the RefMut; after
\* the last field the RefMut is dropped.
UpdateWrite ==
    /\ tasks[Duty].pc = "write"
    /\ LET g == tasks[Duty].guild
           i == tasks[Duty].field
           p == WriteField(Unwrap(players[g]), Unwrap(tasks[Duty].update), i)
       IN /\ players' = [players EXCEPT ![g] = Some(p)]
          /\ IF i = Len(UpdateFields)
             THEN /\ guards' = guards \ {RefMut(Duty, g)}
                  /\ tasks' = Leave(Duty)
             ELSE /\ guards' = guards
                  /\ tasks' = [tasks EXCEPT ![Duty].field = i + 1]
    /\ UNCHANGED << hasher, hsVars, replaced, inVars, codec, nodes, state, addr,
                    stats, held, removed, callers, nextConn, nextPlayer, chanVars >>

\* ------------------------------------------------------ specifications ----
\* The coordinator and the player registry under concurrent callers
Next ==
    \/ \E a \in Addrs : Add(a)
    \/ \E a \in Addrs : AddFail(a)
    \/ \E a \in Addrs : NodeRemove(a)
    \/ \E c \in Conns : StatsEvent(c, StatsIdle)
    \/ \E c \in Conns, g \in Guilds : PlayerUpdateEvent(c, g, UpdateA)
    \/ \E k \in Callers, g \in Contended : PlayerCall(k, g)
    \/ \E k \in Callers : BestStep(k)
    \/ \E k \in Callers : BestEnd(k)
    \/ \E k \in Callers : PlayerInsert(k)
    \/ \E k \in Callers, g \in Contended, c \in Conns : GetOrInsertCall(k, g, c)
    \/ \E k \in Callers : Return(k)
    \/ \E g \in Guilds : PlayerRemove(g)

Spec == Init /\ [][Next]_vars

\* best() on its own against a changing node map and changing statistics
NextBest ==
    \/ \E a \in Addrs : Add(a)
    \/ \E a \in Addrs : AddFail(a)
    \/ \E a \in Addrs : NodeRemove(a)
    \/ \E c \in Conns, s \in StatsSamples : StatsEvent(c, s)
    \/ \E k \in Callers : BestCall(k)
    \/ \E k \in Callers : BestStep(k)
    \/ \E k \in Callers : BestEnd(k)
    \/ \E k \in Callers : Return(k)

SpecBest == Init /\ [][NextBest]_vars

\* Commands sent through Players to connections that fail and reconnect
NextConn ==
    \/ \E a \in Addrs : Add(a)
    \/ \E k \in Binder, g \in Contended, c \in Conns : GetOrInsertCall(k, g, c)
    \/ \E k \in Callers : Return(k)
    \/ \E g \in Guilds, op \in CmdOps : PlayerSend(g, op)
    \/ \E c \in Conns : OutboundWrite(c)
    \/ \E c \in Conns : TransportFail(c)
    \/ \E c \in Conns : ReconnectBegin(c)
    \/ \E c \in Conns : ReconnectOk(c)

SpecConn == Init /\ [][NextConn]_vars

\* Commands sent through Players while nodes are removed and the handles
\* to their connections are dropped
NextClose ==
    \/ \E a \in Addrs : Add(a)
    \/ \E a \in Addrs : NodeRemove(a)
    \/ \E c \in Conns : DropHandle(c)
    \/ \E c \in Conns : ConnClose(c)
    \/ \E k \in Binder, g \in Contended, c \in Conns : GetOrInsertCall(k, g, c)
    \/ \E k \in Callers : Return(k)
    \/ \E g \in Guilds : PlayerRemove(g)
    \/ \E g \in Guilds, op \in CmdOps : PlayerSend(g, op)
    \/ \E c \in Conns : OutboundWrite(c)

SpecClose == Init /\ [][NextClose]_vars

\* The inbound duty of the connections against the player registry
NextIn ==
    \/ \E a \in Addrs : Add(a)
    \/ \E k \in Binder, g \in Guilds, c \in Conns : GetOrInsertCall(k, g, c)
    \/ \E k \in Callers : Return(k)
    \/ \E c \in Conns, body \in FrameSamples : FrameArrive(c, body)
    \/ \E c \in Conns : InboundHandle(c)
    \/ \E c \in Conns : InboundPublish(c)

SpecIn == Init /\ [][NextIn]_vars

\* The life of the connections: added, replaced, removed, failing and
\* reconnecting, with Players bound to them
NextLife ==
    \/ \E a \in Addrs : Add(a)
    \/ \E a \in Addrs : AddFail(a)
    \/ \E a \in Addrs : NodeRemove(a)
    \/ \E c \in Conns : DropHandle(c)
    \/ \E c \in Conns : ConnClose(c)
    \/ \E c \in Conns : TransportFail(c)
    \/ \E c \in Conns : ReconnectBegin(c)
    \/ \E c \in Conns : ReconnectOk(c)
    \/ \E k \in Binder, g \in Contended, c \in Conns : GetOrInsertCall(k, g, c)
    \/ \E k \in Callers : Return(k)
    \/ \E g \in Guilds : PlayerRemove(g)

SpecLife == Init /\ [][NextLife]_vars

\* The round trip of the outbound commands through their JSON
NextCodec ==
    \/ \E ev \in OutgoingSamples : Encode(ev)
    \/ Decode

SpecCodec == Init /\ [][NextCodec]_vars

\* Snapshots over a grid of the four inputs of the penalty: the playing
\* players, the CPU load, and the frame statistics, absent or present with
\* their deficit and nulled counts.
ScorePlaying == {0, 5}

ScoreLoads == {0, 10, 100}

ScoreFrames == {0, 60}

ScoreSamples ==
    {[playing |-> p, cpu |-> l, frames |-> << >>] :
        p \in ScorePlaying, l \in ScoreLoads}
    \cup {[playing |-> x[1], cpu |-> x[2],
           frames |-> << [deficit |-> x[3], nulled |-> x[4]] >>] :
          x \in ScorePlaying \X ScoreLoads \X ScoreFrames \X ScoreFrames}

\* The statistics of the connections over the grid of snapshots
NextScore ==
    \/ \E a \in Addrs : Add(a)
    \/ \E c \in Conns, s \in ScoreSamples : StatsEvent(c, s)

SpecScore == Init /\ [][NextScore]_vars

\* The player registry under get_or_insert, remove and the player-updates
\* of the nodes
NextReg ==
    \/ \E a \in Addrs : Add(a)
    \/ \E k \in Callers, g \in Guilds, c \in Conns : GetOrInsertCall(k, g, c)
    \/ \E k \in Callers, g \in Guilds : RemoveCall(k, g)
    \/ \E k \in Callers : Return(k)
    \/ \E c \in Conns, g \in Guilds : PlayerUpdateEvent(c, g, UpdateA)

SpecReg == Init /\ [][NextReg]_vars

\* The tokens of the resume configurations given to add_with_resume
Tokens == {"tokenA", "tokenB"}

\* Connections with and without a resume that fail and reconnect
NextResume ==
    \/ \E a \in Addrs : Add(a)
    \/ \E a \in Addrs, t \in Tokens : AddWithResume(a, Some(t))
    \/ \E c \in Conns : TransportFail(c)
    \/ \E c \in Conns : ReconnectBegin(c)
    \/ \E c \in Conns : ReconnectFail(c)
    \/ \E c \in Conns : ReconnectOk(c)

SpecResume == Init /\ [][NextResume]_vars

\* The commands of the protocol that go through a Player
PlayerOps == {"play", "stop", "pause", "seek", "volume", "filters", "destroy"}

\* Players that take commands and player-updates and are removed
NextCache ==
    \/ \E a \in Addrs : Add(a)
    \/ \E k \in Binder, g \in Guilds, c \in Conns : GetOrInsertCall(k, g, c)
    \/ \E k \in Binder, g \in Guilds : RemoveCall(k, g)
    \/ \E k \in Callers : Return(k)
    \/ \E g \in Guilds, op \in PlayerOps : PlayerSend(g, op)
    \/ \E c \in Conns, g \in Guilds : PlayerUpdateEvent(c, g, UpdateB)

SpecCache == Init /\ [][NextCache]_vars

\* One well-formed frame of each kind of the inbound protocol
KindFrames ==
    {FramePlayerUpdate(1, UpdateA), FrameStats(StatsLossy), FrameTrackStart(1),
     FrameTrackEnd(1), FrameTrackException(1), FrameTrackStuck(1),
     FrameWebsocketClose(1)}

\* The kind of a frame of the inbound protocol, by its op and its type
FrameKind(f) ==
    CASE f.op = "playerUpdate" -> "PlayerUpdate"
      [] f.op = "stats" -> "Stats"
      [] f.op = "event" /\ f.type = "TrackStartEvent" -> "TrackStart"
      [] f.op = "event" /\ f.type = "TrackEndEvent" -> "TrackEnd"
      [] f.op = "event" /\ f.type = "TrackExceptionEvent" -> "TrackException"
      [] f.op = "event" /\ f.type = "TrackStuckEvent" -> "TrackStuck"
      [] f.op = "event" /\ f.type = "WebSocketClosedEvent" -> "WebsocketClose"
      [] OTHER -> "none"

\* The inbound duty on frames of every kind, good and bad
NextKinds ==
    \/ \E a \in Addrs : Add(a)
    \/ \E c \in Conns, body \in KindFrames \cup BadFrames : FrameArrive(c, body)
    \/ \E c \in Conns : InboundHandle(c)
    \/ \E c \in Conns : InboundPublish(c)

SpecKinds == Init /\ [][NextKinds]_vars

\* The statistics frames of the nodes, one for each sample snapshot
StatsFrames == {FrameStats(s) : s \in StatsSamples}

\* The inbound duty on the statistics events of the nodes
NextStats ==
    \/ \E a \in Addrs : Add(a)
    \/ \E c \in Conns, body \in StatsFrames : FrameArrive(c, body)
    \/ \E c \in Conns : InboundHandle(c)
    \/ \E c \in Conns : InboundPublish(c)

SpecStats == Init /\ [][NextStats]_vars

\* The same under a fair reconnect duty: a reconnection that can start
\* does start, and a handshake the node accepts is made.  The node refuses
\* at most MaxRetries retries of one reconnection.
SpecReconnect ==
    /\ Init
    /\ [][NextResume]_vars
    /\ \A c \in Conns : WF_vars(ReconnectBegin(c)) /\ WF_vars(ReconnectOk(c))

\* The player map under its guards: both callers call get and player()
\* for the contended guild, get_or_insert for the other guild and remove
\* for the contended one, and drop the references they were given, while
\* the inbound duty applies player-updates to the contended guild.  The
\* registrar adds the nodes the Players are bound to, and a statistics
\* event gives a node the penalty best() picks it by.
NextGuards ==
    \/ \E h \in Hashers : LavalinkNew(h)
    \/ \E t \in Callers, g \in Contended : GetBegin(t, g)
    \/ \E t \in Callers, g \in Contended : PlayerBegin(t, g)
    \/ \E t \in Callers : GetLock(t)
    \/ \E t \in Callers, g \in Guilds \ Contended, c \in Conns : GetOrInsertBegin(t, g, c)
    \/ \E t \in Callers : EntryLock(t)
    \/ \E t \in Callers : OrInsertWith(t)
    \/ \E t \in Callers, g \in Contended : RemoveBegin(t, g)
    \/ \E t \in Callers : RemoveLock(t)
    \/ \E t \in Callers : \E gd \in guards : DropGuard(t, gd)
    \/ \E t \in Callers : BestNext(t)
    \/ \E t \in Callers : BestPenalty(t)
    \/ \E t \in Callers : BestDone(t)
    \/ \E t \in Registrar, a \in Rebuilt : AddBegin(t, a)
    \/ \E t \in Callers : AddInsert(t)
    \/ \E c \in Fed, g \in Contended, u \in UpdateSamples : UpdateBegin(c, g, u)
    \/ UpdateLock
    \/ UpdateWrite
    \/ \E c \in Fed : StatsEvent(c, StatsIdle)

SpecGuards == Init /\ [][NextGuards]_vars

\* Both maps under their guards: every operation that takes a lock of the
\* player map or of the node map.  Both callers call player() for either
\* guild, get and remove for the contended guild and get_or_insert for the
\* other one; the registrar adds and removes nodes while the other caller
\* calls best(); the inbound duty applies a player-update to the contended
\* guild.
NextLocks ==
    \/ \E h \in Hashers : LavalinkNew(h)
    \/ \E t \in Callers, g \in Contended : GetBegin(t, g)
    \/ \E t \in Callers, g \in Guilds : PlayerBegin(t, g)
    \/ \E t \in Callers : GetLock(t)
    \/ \E t \in Callers, g \in Guilds \ Contended, c \in Conns : GetOrInsertBegin(t, g, c)
    \/ \E t \in Callers : EntryLock(t)
    \/ \E t \in Callers : OrInsertWith(t)
    \/ \E t \in Callers, g \in Contended : RemoveBegin(t, g)
    \/ \E t \in Callers : RemoveLock(t)
    \/ \E t \in Callers : \E gd \in guards : DropGuard(t, gd)
    \/ \E t \in Callers \ Registrar : BestBegin(t)
    \/ \E t \in Callers : BestNext(t)
    \/ \E t \in Callers : BestPenalty(t)
    \/ \E t \in Callers : BestDone(t)
    \/ \E t \in Registrar, a \in Addrs : AddBegin(t, a)
    \/ \E t \in Callers : AddInsert(t)
    \/ \E t \in Registrar, a \in Rebuilt : NodeRemoveBegin(t, a)
    \/ \E t \in Callers : NodeRemoveLock(t)
    \/ \E c \in Fed, g \in Contended : UpdateBegin(c, g, UpdateB)
    \/ UpdateLock
    \/ UpdateWrite
    \/ \E c \in Fed : StatsEvent(c, StatsIdle)

SpecLocks == Init /\ [][NextLocks]_vars

\* ----------------------------------------------------------- properties ----
\* The connections in the node map
Registered == {Unwrap(nodes[a]) : a \in {x \in Addrs : IsSome(nodes[x])}}

\* The penalty of connection c as best() reads it
Score(c) == Penalty(stats[c])

\* Caller k holds the result of a best() of its own during which neither
\* the node map nor a snapshot changed, and nothing changed since
SettledBest(k) ==
    /\ callers[k].pc = "done"
    /\ callers[k].op = "best"
    /\ callers[k].stable

\* C1: with at least one node registered and no change of the statistics
\* during the call, best() returns a registered node whose penalty is at
\* most the penalty of every registered node, and among the nodes of that
\* penalty the one that comes first in the iteration of the node map.
C1_BestIsFirstMinimum ==
    \A k \in Callers :
        (SettledBest(k) /\ Registered # {}) =>
            /\ callers[k].ret.tag = "node"
            /\ callers[k].ret.val \in Registered
            /\ \A c \in Registered :
                  /\ Score(callers[k].ret.val) <= Score(c)
                  /\ Score(c) = Score(callers[k].ret.val) => addr[callers[k].ret.val] <= addr[c]

\* C2: best() returns NodesUnconfigured exactly when no node is
\* registered; a registered node without statistics is still returned.
C2_ErrorIffNoNode ==
    \A k \in Callers :
        SettledBest(k) =>
            (callers[k].ret.tag = "NodesUnconfigured" <=> Registered = {})

\* Caller k holds a Player of guild g that has not been removed since
HoldsPlayer(k, g) ==
    /\ callers[k].pc = "done"
    /\ callers[k].ret.tag = "player"
    /\ callers[k].guild = g
    /\ callers[k].live

\* C3: the callers of get_or_insert and player() for one guild all receive
\* the one Player that is registered for the guild, whatever node each of
\* them passed or selected.
C3_OnePlayerForAllCallers ==
    \A g \in Guilds : \A k1 \in Callers, k2 \in Callers :
        (HoldsPlayer(k1, g) /\ HoldsPlayer(k2, g)) =>
            /\ callers[k1].ret.val = callers[k2].ret.val
            /\ IsSome(players[g])
            /\ Unwrap(players[g]).id = callers[k1].ret.val

\* Two callers raced through get_or_insert for one guild with different
\* nodes; one of them constructed the Player and both hold it.
C3_Witness ==
    \E g \in Guilds :
        /\ HoldsPlayer(1, g) /\ HoldsPlayer(2, g)
        /\ callers[1].via = "insert" /\ callers[2].via = "insert"
        /\ callers[1].made # callers[2].made
        /\ callers[1].passed # callers[2].passed

\* C4: a registered Player is never replaced and never rebound in place:
\* from one state to the next a guild that keeps a Player keeps the same
\* Player with the same node, so that another node is bound only by a
\* removal followed by a new creation.
C4_NodeFixedWhileRegistered ==
    [][\A g \in Guilds :
          (IsSome(players[g]) /\ IsSome(players'[g])) =>
              /\ Unwrap(players'[g]).id = Unwrap(players[g]).id
              /\ Unwrap(players'[g]).node = Unwrap(players[g]).node]_vars

\* get_or_insert was given a node other than the one of the registered
\* Player and returned that Player, which keeps its node.
C4_Witness ==
    \E k \in Callers, g \in Guilds :
        /\ HoldsPlayer(k, g)
        /\ callers[k].via = "insert"
        /\ ~callers[k].made
        /\ IsSome(players[g])
        /\ callers[k].passed # Some(Unwrap(players[g]).node)

\* C5: player(guild) called while the guild has a Player returns that
\* Player at once, without entering best(); called while it has none, it
\* ends with the Player registered for the guild, and when it constructs
\* that Player the node is the one its best() returned.
C5_PlayerReturnsOrCreates ==
    [][\A k \in Callers :
          LET g == callers'[k].guild IN
          /\ (callers[k].pc = "idle" /\ callers'[k].op = "player" /\ IsSome(players[g])) =>
                /\ callers'[k].pc = "done"
                /\ callers'[k].ret = [tag |-> "player", val |-> Unwrap(players[g]).id]
                /\ players' = players
          /\ (callers[k].pc = "insert" /\ callers'[k].pc = "done") =>
                /\ IsSome(players'[g])
                /\ callers'[k].ret = [tag |-> "player", val |-> Unwrap(players'[g]).id]
                /\ IF IsSome(players[g])
                   THEN players' = players
                   ELSE Unwrap(players'[g]).node = Unwrap(callers[k].best)]_vars

\* player() returned the registered Player while no node was registered.
C5_Witness ==
    \E k \in Callers, g \in Guilds :
        /\ HoldsPlayer(k, g)
        /\ callers[k].op = "player"
        /\ callers[k].via = "get"
        /\ Registered = {}

\* C6: a player() that found no Player and whose best() ran with no node
\* registered ends with NodesUnconfigured, and a player() that ends with
\* NodesUnconfigured leaves the player registry and the node map as they
\* were.
C6_NoNodeNoPlayer ==
    [][\A k \in Callers :
          (callers[k].op = "player" /\ callers[k].pc = "best" /\ callers'[k].pc # "best") =>
              /\ (callers[k].stable /\ Registered = {}) =>
                    callers'[k].ret.tag = "NodesUnconfigured"
              /\ callers'[k].ret.tag = "NodesUnconfigured" =>
                    /\ callers'[k].pc = "done"
                    /\ players' = players
                    /\ nodes' = nodes
                    /\ nextPlayer' = nextPlayer]_vars

\* player() ended with NodesUnconfigured with no node registered and no
\* Player for the guild.
C6_Witness ==
    \E k \in Callers :
        /\ callers[k].pc = "done"
        /\ callers[k].op = "player"
        /\ callers[k].ret.tag = "NodesUnconfigured"
        /\ callers[k].stable
        /\ Registered = {}
        /\ ~IsSome(players[callers[k].guild])

\* C7: the step that removes a node leaves get(address) empty and every
\* Player as it was, the Players bound to the removed node included; and
\* a best() that runs with the node map unchanged holds only registered
\* nodes as its candidate.
C7_RemoveDetachesOnly ==
    [][/\ \A a \in Addrs :
             (IsSome(nodes[a]) /\ removed'[Unwrap(nodes[a])] /\ ~removed[Unwrap(nodes[a])]) =>
                 /\ ~IsSome(nodes'[a])
                 /\ Unwrap(nodes[a]) \notin {Unwrap(nodes'[x]) : x \in {y \in Addrs : IsSome(nodes'[y])}}
                 /\ players' = players
       /\ \A k \in Callers :
             (callers'[k].pc = "best" /\ callers'[k].stable /\ IsSome(callers'[k].best)) =>
                 \E a \in Addrs : nodes'[a] = callers'[k].best]_vars

\* A node was removed and a Player bound to it is still registered.
C7_Witness ==
    \E g \in Guilds :
        /\ IsSome(players[g])
        /\ removed[Unwrap(players[g]).node]
        /\ Unwrap(players[g]).node \notin Registered

\* C8: a send through a Player whose node Lavalink::remove has taken
\* returns a SendError, and its command is on no wire.
C8_SendAfterRemoveFails ==
    lastSend.removed =>
        /\ lastSend.tag = "Err"
        /\ \A c \in Conns : \A i \in 1..Len(wire[c]) : wire[c][i].id # lastSend.cmd

\* C9: a send returns an error only to a connection that is Closed; to a
\* connection that is Connected, Disconnected or Reconnecting it returns
\* Ok.
C9_SendFailsOnlyWhenClosed ==
    /\ lastSend.tag = "Err" => lastSend.at = "Closed"
    /\ lastSend.at \in {"Connected", "Disconnected", "Reconnecting"} => lastSend.tag = "Ok"

\* A send to a connection that had lost its transport returned Ok.
C9_Witness ==
    /\ lastSend.tag = "Ok"
    /\ lastSend.at \in {"Disconnected", "Reconnecting"}

\* The position of the command of identity id in the sequence s, 0 when it
\* is not there
PositionOf(s, id) ==
    IF \E i \in 1..Len(s) : s[i].id = id
    THEN CHOOSE i \in 1..Len(s) : s[i].id = id
    ELSE 0

\* C10: the commands on the wire of a connection are accepted commands of
\* that connection, in the order of their acceptance and each at most
\* once.
C10_WireIsFifoSubsequence ==
    \A c \in Conns :
        /\ \A i \in 1..Len(wire[c]) :
              /\ PositionOf(accepted[c], wire[c][i].id) > 0
              /\ accepted[c][PositionOf(accepted[c], wire[c][i].id)] = wire[c][i]
        /\ \A i \in 1..Len(wire[c]), j \in 1..Len(wire[c]) :
              i < j => PositionOf(accepted[c], wire[c][i].id)
                         < PositionOf(accepted[c], wire[c][j].id)

\* Two commands were written to one wire after a command accepted between
\* them or before them was dropped, or simply one after the other.
C10_Witness ==
    \E c \in Conns : Len(wire[c]) >= 2


Handling(c) == InboundTake(inbox[c]).frame

\* C12: when the inbound duty handles a player-update for guild g, the
\* Player registered for g gets the time, position, paused flag, volume and
\* filters of the event and keeps its identity and its node, and the
\* Player of every other guild is as it was.
C12_UpdateTouchesOnlyItsGuild ==
    [][\A c \in Conns :
          (handled'[c] # handled[c] /\ HasKeys(Handling(c).body, {"op", "guildId", "state"})) =>
              LET g == Handling(c).body.guildId
                  u == Handling(c).body.state
              IN /\ IsSome(players[g]) =>
                      /\ IsSome(players'[g])
                      /\ Unwrap(players'[g]) =
                            [id |-> Unwrap(players[g]).id, guild |-> g,
                             node |-> Unwrap(players[g]).node,
                             time |-> u.time, position |-> Some(u.position),
                             paused |-> u.paused, volume |-> u.volume,
                             filters |-> u.filters]
                 /\ \A h \in Guilds \ {g} : players'[h] = players[h]]_vars

\* Two guilds have Players; a player-update was applied to the one and the
\* other still has the state it was created with.
C12_Witness ==
    \E g \in Guilds, h \in Guilds :
        /\ g # h
        /\ IsSome(players[g]) /\ IsSome(players[h])
        /\ IsSome(lastApplied[g])
        /\ Unwrap(players[g]).volume = Unwrap(lastApplied[g]).state.volume
        /\ Unwrap(players[h]) = NewPlayer(Unwrap(players[h]).id, h, Unwrap(players[h]).node)

\* The cached state of Player p is the state u of a player-update
ShowsUpdate(p, u) ==
    /\ p.time = u.time
    /\ p.position = Some(u.position)
    /\ p.paused = u.paused
    /\ p.volume = u.volume
    /\ p.filters = u.filters

\* C13: on each connection the frames are handled in the order of their
\* arrival and the events are republished in that order, none before it
\* was handled; a Player shows the state of the latest player-update
\* applied to it, and the updates of one connection are applied to it in
\* the order of their arrival, never an older one after a newer one.
C13_InboundInArrivalOrder ==
    [][/\ \A c \in Conns :
             /\ handled'[c] >= handled[c]
             /\ \A i \in 1..Len(published'[c]) :
                   /\ published'[c][i].seq <= handled'[c]
                   /\ \A j \in 1..Len(published'[c]) :
                         i < j => published'[c][i].seq < published'[c][j].seq
       /\ \A g \in Guilds :
             /\ (IsSome(players'[g]) /\ IsSome(lastApplied'[g])) =>
                   ShowsUpdate(Unwrap(players'[g]), Unwrap(lastApplied'[g]).state)
             /\ (IsSome(lastApplied[g]) /\ IsSome(lastApplied'[g])
                   /\ Unwrap(lastApplied[g]).conn = Unwrap(lastApplied'[g]).conn) =>
                   Unwrap(lastApplied'[g]).seq >= Unwrap(lastApplied[g]).seq]_vars

\* One connection republished two different player-updates of one guild,
\* and the Player of the guild shows the second.
C13_Witness ==
    \E c \in Conns, g \in Guilds :
        /\ Len(published[c]) = 2
        /\ published[c][1].event.variant = "PlayerUpdate"
        /\ published[c][2].event.variant = "PlayerUpdate"
        /\ published[c][1].event.guild_id = g
        /\ published[c][2].event.guild_id = g
        /\ published[c][1].event.state # published[c][2].event.state
        /\ IsSome(players[g])
        /\ lastApplied[g] = Some([seq |-> published[c][2].seq, conn |-> c,
                                  state |-> published[c][2].event.state])
        /\ ShowsUpdate(Unwrap(players[g]), published[c][2].event.state)

\* The transitions of the state machine of a connection.  A connection
\* that add has not brought up yet is in the handshake of Node::connect,
\* the state Connecting, from which it is Connected or, the handshake
\* failing, never comes to be.
Edges ==
    {<< "Unused", "Connected" >>, << "Unused", "Closed" >>,
     << "Connected", "Disconnected" >>, << "Disconnected", "Reconnecting" >>,
     << "Reconnecting", "Connected" >>, << "Connected", "Closed" >>,
     << "Disconnected", "Closed" >>, << "Reconnecting", "Closed" >>}

Unheld(c) == ~held[c] /\ ~CallerHolds(c)

\* C15: once Lavalink::remove has taken a connection out of the node map
\* and the caller has let go of the handle it got back, the duties of the
\* connection have stopped: no command is written to its wire and no event
\* is republished on its stream any more, so that what was in its queue is
\* never delivered.
C15_RemovedConnectionIsSilent ==
    [][\A c \in Conns :
          (removed[c] /\ Unheld(c)) =>
              /\ wire'[c] = wire[c]
              /\ published'[c] = published[c]]_vars

\* Connection c was registered and has left the node map by a later add
\* on its address, not by Lavalink::remove
Replaced(c) ==
    /\ c < nextConn
    /\ c \notin Registered
    /\ ~removed[c]

\* C17: once an add has replaced a connection in the node map and no
\* caller holds a handle to it, the replaced connection is released, with
\* or without Players bound to it: its duties have stopped, so no command
\* is written to its wire and no event is republished on its stream any
\* more.
C17_ReplacedConnectionIsReleased ==
    [][\A c \in Conns :
          (Replaced(c) /\ Unheld(c)) =>
              /\ wire'[c] = wire[c]
              /\ published'[c] = published[c]]_vars

\* C16: the step of a successful add(address) leaves the new connection as
\* the entry of the address, whatever was there, and the other entries as
\* they were, so that get(address) returns the new connection; no
\* connection is the entry of two addresses; and a best() that ran with
\* the node map unchanged returns a connection that is the entry of its
\* address, never a replaced one.
C16_AddReplacesEntry ==
    [][/\ \A a \in Addrs :
             (nextConn' = nextConn + 1 /\ state'[nextConn] = "Connected"
                 /\ addr'[nextConn] = a) =>
                 /\ NodeGet(a)' = Some(nextConn)
                 /\ \A b \in Addrs \ {a} : NodeGet(b)' = NodeGet(b)
       /\ \A a \in Addrs, b \in Addrs :
             (IsSome(nodes'[a]) /\ nodes'[a] = nodes'[b]) => a = b
       /\ \A k \in Callers :
             (SettledBest(k)' /\ callers'[k].ret.tag = "node") =>
                 nodes'[addr'[callers'[k].ret.val]] = Some(callers'[k].ret.val)]_vars

\* The second add on an address replaced the first connection, which is
\* still Connected, and a best() that ran since returned the new one.
C16_Witness ==
    \E k \in Callers, c \in Conns, d \in Conns :
        /\ Replaced(c) /\ state[c] = "Connected"
        /\ addr[d] = addr[c] /\ NodeGet(addr[c]) = Some(d)
        /\ SettledBest(k)
        /\ callers[k].ret = [tag |-> "node", val |-> d]

\* C18: an outbound command wrapped as an OutgoingEvent, serialized and
\* parsed back as an OutgoingEvent is the event it was: the same variant
\* with the same value in every field.
C18_OutgoingRoundTrip ==
    IsSome(codec.parsed) => Unwrap(codec.parsed) = codec.event

\* The inputs of the penalty read from snapshot s: the deficit and nulled
\* counts are inputs only when the frame statistics are present.
Deficit(s) == Unwrap(s.frames).deficit

Nulled(s) == Unwrap(s.frames).nulled

SameFrames(s, t) == s.frames = t.frames

\* Snapshot t is snapshot s with exactly one of the four inputs raised or
\* left as it is, the other three held fixed.
RaisedIn(s, t) ==
    \/ s.playing <= t.playing /\ s.cpu = t.cpu /\ SameFrames(s, t)
    \/ s.cpu <= t.cpu /\ s.playing = t.playing /\ SameFrames(s, t)
    \/ /\ IsSome(s.frames) /\ IsSome(t.frames)
       /\ s.playing = t.playing /\ s.cpu = t.cpu
       /\ \/ Deficit(s) <= Deficit(t) /\ Nulled(s) = Nulled(t)
          \/ Nulled(s) <= Nulled(t) /\ Deficit(s) = Deficit(t)

\* C19: the penalty is a function of the snapshot alone (two connections
\* with equal snapshots have equal penalties), and of two connections
\* whose snapshots differ in one input only (playing players, CPU load,
\* deficit frames or nulled frames) the one with the higher input never
\* has the lower penalty.
C19_PenaltyMonotone ==
    \A c \in Conns, d \in Conns :
        (IsSome(stats[c]) /\ IsSome(stats[d])) =>
            /\ stats[c] = stats[d] => Score(c) = Score(d)
            /\ RaisedIn(Unwrap(stats[c]), Unwrap(stats[d])) => Score(c) <= Score(d)

\* C19 witness: two connections whose snapshots both carry frame statistics
\* and differ in the nulled count only, both playing and under load, and
\* the one with more nulled frames has the strictly higher penalty.
C19_Witness ==
    \E c \in Conns, d \in Conns :
        /\ IsSome(stats[c]) /\ IsSome(stats[d])
        /\ LET s == Unwrap(stats[c])
               t == Unwrap(stats[d])
           IN  /\ IsSome(s.frames) /\ IsSome(t.frames)
               /\ s.playing = 5 /\ t.playing = 5
               /\ s.cpu = 10 /\ t.cpu = 10
               /\ Deficit(s) = 60 /\ Deficit(t) = 60
               /\ Nulled(s) < Nulled(t)
        /\ Score(c) < Score(d)

\* C20: when the inbound duty handles a frame that is malformed (a
\* player-update without its state) or of an operation outside the
\* protocol, the frame leaves the inbox and nothing else happens: every
\* Player, the cached statistics, the subscriber streams and the states of
\* the connections are as they were, no event is held for republishing,
\* and the connection is still Connected and free to handle its next frame.
C20_BadFrameDiscarded ==
    [][\A c \in Conns :
          (handled'[c] # handled[c] /\ Handling(c).body \in BadFrames) =>
              /\ players' = players
              /\ stats' = stats
              /\ published' = published
              /\ state' = state
              /\ state'[c] = "Connected"
              /\ pending'[c] = << >>
              /\ inbox'[c] = Tail(inbox[c])]_vars

\* C20 witness: both frames arrived on one connection; the first was
\* discarded and the second, a player-update, was applied to the Player of
\* its guild and is the only event republished.
C20_Witness ==
    \E c \in Conns :
        /\ nextFrame = 3
        /\ handled[c] = 2
        /\ \A d \in Conns \ {c} : handled[d] = 0 /\ inbox[d] = << >>
        /\ pending[c] = << >>
        /\ Len(published[c]) = 1
        /\ published[c][1].seq = 2
        /\ published[c][1].event.variant = "PlayerUpdate"
        /\ \E g \in Guilds :
              /\ IsSome(players[g]) /\ IsSome(lastApplied[g])
              /\ Unwrap(lastApplied[g]).seq = 2
              /\ ShowsUpdate(Unwrap(players[g]), Unwrap(lastApplied[g]).state)

\* Caller k returns from remove(g) in this step
Removes(k, g) ==
    /\ callers[k].pc = "idle"
    /\ callers'[k].pc = "done"
    /\ callers'[k].op = "remove"
    /\ callers'[k].guild = g

\* C21: remove(g) on a registered guild returns the Player that was
\* registered and get(g) then returns nothing; on an absent guild it
\* returns nothing and the registry is as it was, so that a second removal
\* leaves what the first left; the Player of no other guild is touched.
C21_RemoveIsIdempotent ==
    [][\A k \in Callers, g \in Guilds :
          Removes(k, g) =>
              /\ IsSome(players[g]) =>
                    /\ callers'[k].ret = [tag |-> "removed", val |-> Unwrap(players[g]).id]
                    /\ ~IsSome(players'[g])
              /\ ~IsSome(players[g]) =>
                    /\ callers'[k].ret.tag = "None"
                    /\ players' = players
              /\ PlayersRemove(players', g) = players'
              /\ \A h \in Guilds \ {g} : players'[h] = players[h]]_vars

\* C21 witness: of two removals of one guild one returned the Player and
\* the other nothing; the guild has no Player and the Player of the other
\* guild, which has taken a player-update, is still registered.
C21_Witness ==
    \E g \in Guilds, h \in Guilds, k \in Callers, l \in Callers :
        /\ g # h
        /\ callers[k].op = "remove" /\ callers[k].guild = g
        /\ callers[k].ret.tag = "removed"
        /\ callers[l].op = "remove" /\ callers[l].guild = g
        /\ callers[l].ret.tag = "None"
        /\ ~IsSome(players[g])
        /\ IsSome(players[h])
        /\ Unwrap(players[h]).volume = UpdateA.volume

\* The identities of the commands in the queue and on the wire of
\* connection c
CmdsAt(c) == Unsent(queue[c]) \cup Unsent(wire[c])

Retries(c) ==
    /\ state[c] = "Reconnecting"
    /\ retries'[c] = retries[c] + 1 \/ state'[c] = "Connected"

\* C23: a connection leaves Connected for Disconnected (or Closed), leaves
\* Disconnected for Reconnecting (or Closed), and retries the handshake
\* while Reconnecting; every retry asks for a resume with the token of the
\* connection's configuration when it has one and for none when it has
\* none, and the token is the same from the first handshake on.
C23_RetryRequestsResume ==
    [][\A c \in Conns :
          /\ (state[c] = "Connected" /\ state'[c] # "Connected") =>
                state'[c] \in {"Disconnected", "Closed"}
          /\ (state[c] = "Disconnected" /\ state'[c] # "Disconnected") =>
                state'[c] \in {"Reconnecting", "Closed"}
          /\ (state[c] = "Reconnecting" /\ state'[c] # "Reconnecting") =>
                state'[c] \in {"Connected", "Closed"}
          /\ Retries(c) =>
                /\ request'[c].kind = "retry"
                /\ request'[c].resume = resume[c]
          /\ state[c] # "Unused" => resume'[c] = resume[c]]_vars

\* C23 witness: two connections are back to Connected after a transport
\* failure; the one that has a token asked for a resume with it in its
\* retry, and the one that has none asked for none.
C23_Witness ==
    \E c \in Conns, d \in Conns :
        /\ state[c] = "Connected" /\ state[d] = "Connected"
        /\ request[c] = [kind |-> "retry", resume |-> Some("tokenB")]
        /\ resume[c] = Some("tokenB")
        /\ request[d] = [kind |-> "retry", resume |-> << >>]
        /\ resume[d] = << >>

\* The last line of player() in caller k constructs the Player of guild g
\* in this step
Creates(k, g) ==
    /\ callers[k].pc = "insert"
    /\ callers'[k].pc = "done"
    /\ callers[k].guild = g
    /\ ~IsSome(players[g])
    /\ IsSome(players'[g])

\* A Player bound to a node that is not registered keeps that node for as
\* long as it is registered itself
StaleStays ==
    \A g \in Guilds :
        (IsSome(players[g]) /\ IsSome(players'[g])
            /\ Unwrap(players[g]).node \notin Registered) =>
                Unwrap(players'[g]).node = Unwrap(players[g]).node

\* C24 as it is stated: the Player that player() constructs is bound to the
\* node its best() returned; that node is not registered at the moment of
\* the construction only when Lavalink::remove has taken it in between;
\* and nothing rebinds a Player whose node is not registered.
C24_StaleOnlyAfterRemove ==
    [][/\ \A k \in Callers, g \in Guilds :
             Creates(k, g) =>
                 /\ Unwrap(players'[g]).node = Unwrap(callers[k].best)
                 /\ Unwrap(callers[k].best) \notin Registered =>
                       removed[Unwrap(callers[k].best)]
       /\ StaleStays]_vars

\* C24 amended: the node is not registered at the moment of the
\* construction only when its entry has left the node map in between,
\* taken by Lavalink::remove or replaced by an add for the same address;
\* with neither, the Player is bound to a registered node.
C24_StaleOnlyAfterRemoveOrReplace ==
    [][/\ \A k \in Callers, g \in Guilds :
             Creates(k, g) =>
                 /\ Unwrap(players'[g]).node = Unwrap(callers[k].best)
                 /\ Unwrap(callers[k].best) \notin Registered =>
                       \/ removed[Unwrap(callers[k].best)]
                       \/ replaced[Unwrap(callers[k].best)]
       /\ StaleStays]_vars

\* C24 witness: player() constructed the Player of a guild with a node
\* that Lavalink::remove had taken after best() picked it; the Player is
\* registered, bound to that node, and the node is not registered.
C24_Witness ==
    \E k \in Callers, g \in Guilds :
        /\ HoldsPlayer(k, g)
        /\ callers[k].op = "player"
        /\ callers[k].via = "insert"
        /\ callers[k].made
        /\ IsSome(players[g])
        /\ callers[k].passed = Some(Unwrap(players[g]).node)
        /\ removed[Unwrap(players[g]).node]
        /\ ~replaced[Unwrap(players[g]).node]
        /\ Unwrap(players[g]).node \notin Registered

\* The cached state of a Player: what the getters time, position, paused,
\* volume and filters return
Cached(p) == << p.time, p.position, p.paused, p.volume, p.filters >>

\* The step is the inbound duty's on a player-update for guild g: no
\* command is sent and no call returns in it, and the Player of g takes
\* the state of the update
UpdateHandled(g) ==
    /\ nextCmd' = nextCmd
    /\ callers' = callers
    /\ \E u \in UpdateSamples :
          players' = [players EXCEPT ![g] = Some(ApplyUpdate(Unwrap(players[g]), u))]

\* C25: the cached time, position, paused flag, volume and filters of a
\* registered Player change only in a step in which the inbound duty
\* handles a player-update for its guild; a send through a Player, of
\* whatever command, leaves the whole registry as it was; and a Player
\* leaves the registry only in a step of remove for its guild.
C25_CacheChangesOnlyByUpdate ==
    [][/\ \A g \in Guilds :
             /\ (IsSome(players[g]) /\ IsSome(players'[g])
                    /\ Cached(Unwrap(players'[g])) # Cached(Unwrap(players[g]))) =>
                   UpdateHandled(g)
             /\ (IsSome(players[g]) /\ ~IsSome(players'[g])) =>
                   \E k \in Callers : Removes(k, g)
       /\ nextCmd' # nextCmd => players' = players]_vars

\* C25 witness: a pause and a destroy were sent through the Player of a
\* guild and accepted; the Player is registered with the state it was
\* created with, paused flag included.
C25_Witness ==
    \E g \in Guilds :
        /\ IsSome(players[g])
        /\ Unwrap(players[g]) = NewPlayer(Unwrap(players[g]).id, g, Unwrap(players[g]).node)
        /\ LET q == accepted[Unwrap(players[g]).node]
           IN /\ Len(q) = 2
              /\ q[1].guild = g /\ q[1].op = "pause"
              /\ q[2].guild = g /\ q[2].op = "destroy"

\* C26: the inbound duty turns every well-formed frame of a kind of the
\* protocol (player-update, statistics, track start, end, exception, stuck,
\* websocket closed) into an event of that kind and holds it for the
\* subscriber stream, where it is republished next; it discards only the
\* frames that are of none of these kinds.
C26_ListedKindsRepublished ==
    [][\A c \in Conns :
          /\ (handled'[c] # handled[c] /\ Handling(c).body \in KindFrames) =>
                /\ IsSome(pending'[c])
                /\ Unwrap(pending'[c]).seq = Handling(c).seq
                /\ Unwrap(pending'[c]).event.variant = FrameKind(Handling(c).body)
          /\ (handled'[c] # handled[c] /\ ~IsSome(pending'[c])) =>
                Handling(c).body \notin KindFrames
          /\ (IsSome(pending[c]) /\ ~IsSome(pending'[c])) =>
                published'[c] = Append(published[c], Unwrap(pending[c]))]_vars

\* The events connection c has handled, in the order of their handling:
\* those republished and the one held for republishing
Handled(c) == published[c] \o pending[c]

\* The positions of the statistics events among them
StatsAt(c) == {i \in 1..Len(Handled(c)) : Handled(c)[i].event.variant = "Stats"}

\* The latest statistics event connection c has handled
LatestStats(c) ==
    Handled(c)[CHOOSE i \in StatsAt(c) : \A j \in StatsAt(c) : j <= i].event

\* The snapshot a statistics event carries
Carried(ev) == [playing |-> ev.playing_players, cpu |-> ev.cpu, frames |-> ev.frames]

C28_DisconnectedReconnects ==
    /\ \A c \in Conns : (state[c] = "Disconnected") ~> (state[c] = "Connected")
    /\ \A c \in Conns : (state[c] = "Reconnecting") ~> (state[c] = "Connected")
    /\ [][\A c \in Conns :
             state[c] \in {"Connected", "Disconnected", "Reconnecting"} =>
                 state'[c] # "Closed"]_vars

\* C28 witness: a connection lost its transport and is Connected again
\* through a retry of the handshake, while the node has refused a retry of
\* another connection, which is still Reconnecting.
C28_Witness ==
    \E c \in Conns, d \in Conns :
        /\ state[c] = "Connected"
        /\ request[c].kind = "retry"
        /\ state[d] = "Reconnecting"
        /\ retries[d] >= 1

\* An add for address a fails in this step: the connection that was tried
\* is gone at once
AddFails(a) ==
    /\ nextConn' = nextConn + 1
    /\ state'[nextConn] = "Closed"
    /\ addr'[nextConn] = a

\* C29: an add whose handshake fails hands no Node to the caller and
\* leaves the node map as it was: the connection that was tried is not
\* registered, the entry that was at the address is still there, and a
\* best() under way has the same nodes still to visit and the same
\* candidate.
C29_FailedAddChangesNothing ==
    [][\A a \in Addrs :
          AddFails(a) =>
              /\ ~held'[nextConn]
              /\ nodes' = nodes
              /\ NodeGet(a)' = NodeGet(a)
              /\ nextConn \notin Registered'
              /\ Registered' = Registered
              /\ \A k \in Callers :
                    /\ callers'[k] = callers[k]
                    /\ Remaining(k)' = Remaining(k)]_vars

\* C29 witness: an add for the address of a registered node failed; the
\* node is still registered at the address and a best() that ran
\* undisturbed returned it.
C29_Witness ==
    \E k \in Callers :
        /\ state[1] = "Connected"
        /\ state[2] = "Closed" /\ ~removed[2] /\ ~replaced[2]
        /\ addr[2] = addr[1]
        /\ NodeGet(addr[1]) = Some(1)
        /\ SettledBest(k)
        /\ callers[k].ret = [tag |-> "node", val |-> 1]

\* C30: when the inbound duty handles a player-update for a guild that has
\* no Player, the registry is as it was and no Player is constructed; a
\* guild gets a Player only in the step in which a get_or_insert or the
\* last line of player() returns to its caller the Player it constructed,
\* and in no step of the inbound duty.
C30_UpdateCreatesNoPlayer ==
    [][/\ \A c \in Conns :
             (handled'[c] # handled[c]
                 /\ HasKeys(Handling(c).body, {"op", "guildId", "state"})
                 /\ ~IsSome(players[Handling(c).body.guildId])) =>
                 /\ players' = players
                 /\ nextPlayer' = nextPlayer
                 /\ lastApplied' = lastApplied
       /\ \A g \in Guilds :
             (~IsSome(players[g]) /\ IsSome(players'[g])) =>
                 /\ handled' = handled
                 /\ \E k \in Callers :
                       /\ callers[k].pc \in {"idle", "insert"}
                       /\ callers'[k].pc = "done"
                       /\ callers'[k].op \in {"get_or_insert", "player"}
                       /\ callers'[k].guild = g
                       /\ callers'[k].made]_vars

\* C30 witness: a player-update for a guild was handled and republished
\* while the guild had no Player; the Player that get_or_insert made for
\* the guild afterwards, the first ever made, has the state of a new
\* Player and no update applied.
C30_Witness ==
    \E c \in Conns, g \in Guilds :
        /\ Len(published[c]) >= 1
        /\ published[c][1].event.variant = "PlayerUpdate"
        /\ published[c][1].event.guild_id = g
        /\ nextPlayer = 2
        /\ IsSome(players[g])
        /\ Unwrap(players[g]) = NewPlayer(1, g, Unwrap(players[g]).node)
        /\ lastApplied[g] = << >>
        /\ \A d \in Conns : inbox[d] = << >> /\ pending[d] = << >>
        /\ nextFrame = 2
\* The cached fields of a Player that has taken the whole of update u
Applied(u) == << u.time, Some(u.position), u.paused, u.volume, u.filters >>

\* The cached fields of a Player are those Player::new gives or those of
\* one whole update
Whole(p) ==
    \/ Cached(p) = Cached(NewPlayer(0, p.guild, p.node))
    \/ \E u \in UpdateSamples : Cached(p) = Applied(u)

\* The Ref and RefMut guards that were returned to callers: every guard
\* of the player map a caller owns but the write lock of an entry() that
\* has not returned yet
References ==
    {gd \in guards :
        /\ gd.owner \in Callers
        /\ gd.map = "players"
        /\ ~(tasks[gd.owner].pc = "insert" /\ gd = RefMut(gd.owner, tasks[gd.owner].guild))}

\* C31: a caller that holds a reference to a Player sees a Player that is
\* in the registry with every cached field as Player::new set it or every
\* cached field from one and the same player-update: never a Player under
\* construction, never fields of two updates side by side.
C31_ReadersSeeWholePlayers ==
    \A gd \in References :
        /\ IsSome(players[gd.key])
        /\ Whole(Unwrap(players[gd.key]))

\* C31 witness: a caller holds a Ref to a Player that has taken the whole
\* of one update, while the inbound duty waits in get_mut with the other
\* update for the same guild.
C31_Witness ==
    \E t \in Callers, g \in Guilds :
        /\ Ref(t, g) \in guards
        /\ IsSome(players[g])
        /\ Cached(Unwrap(players[g])) = Applied(UpdateA)
        /\ tasks[Duty].pc = "get_mut"
        /\ tasks[Duty].guild = g
        /\ tasks[Duty].update = Some(UpdateB)

\* Task t is inside a call that takes a lock of a map
Waits(t) ==
    tasks[t].pc \in {"get", "entry", "remove", "get_mut", "nodes_insert", "nodes_remove"}

\* The guards that keep the lock task t waits for from being taken: the
\* write locks of the shard for a get, every lock of the shard for the
\* other calls
InTheWay(t) ==
    CASE tasks[t].pc = "get" ->
            {gd \in OnShard("players", tasks[t].guild) : gd.kind = "mut"}
      [] tasks[t].pc \in {"entry", "remove", "get_mut"} ->
            OnShard("players", tasks[t].guild)
      [] tasks[t].pc \in {"nodes_insert", "nodes_remove"} ->
            OnShard("nodes", tasks[t].address)
      [] OTHER -> {}

\* The tasks of S all wait for a lock, each kept from it by a guard of a
\* task of S: none of them takes another step, so none of the guards is
\* ever dropped.
Deadlocked(S) ==
    /\ S # {}
    /\ \A t \in S :
        /\ Waits(t)
        /\ \E gd \in InTheWay(t) : gd.owner \in S

\* C32: no interleaving of best(), player(), get, get_or_insert, the
\* removal of a Player, the addition and the removal of a node and the
\* dispatch of inbound events deadlocks: no set of tasks is ever left
\* waiting for locks that only tasks of the set can let go, so every call
\* terminates, the calls of a caller that still holds a reference to the
\* Player of another guild included.
C32_NoDeadlock == \A S \in SUBSET Tasks : ~Deadlocked(S)

====
